---- MODULE Spec2Model ----
(***************************************************************************)
(* State projection of oshatori (src/src/client): the StateClient, its     *)
(* InMemoryStorage, the two event reducers (the process_* methods and the  *)
(* free function process_event) and the spawn_processor task; and the      *)
(* Sock Chat protocol client (src/src/connection/sockchat.rs): the         *)
(* SockchatConnection with its reader, writer and keepalive tasks.         *)
(***************************************************************************)
EXTENDS Integers, Sequences, FiniteSets, TLC

(***************************************************************************)
(* Bounds of the model.                                                    *)
(***************************************************************************)
\* Spec: number of events handed to process() or sent to a processor in one run
MaxEvents == 1
\* SpecProcess: number of events handed to process() in one run
MaxSteps == 3
\* SpecBatch: number of events sent to the processor in one run
MaxBatch == 2
\* SpecAuth, SpecSession: number of connect(), disconnect() and send() calls
MaxCalls == 3
\* SpecSession: number of keepalive pings
MaxPings == 1
\* SpecReader: number of connect() and disconnect() calls
MaxSessionCalls == 2
\* SpecReader: number of inbound frames
MaxFrames == 2
\* SpecPackets: number of inbound frames
MaxPackets == 2
\* SpecClient: events handed to send() of the StateClient of client.rs
MaxSent == 2
\* SpecFold: events the connections publish
MaxPublished == 2

(***************************************************************************)
(* Values.  Option<String> is a string or None; the empty string is what   *)
(* unwrap_or_default() yields for a missing id.                            *)
(***************************************************************************)
None == "<None>"
EmptyString == ""

ConnIds == {"k1", "k2"}
ProtocolNames == {"mock"}
ChanIds == {"c1", "c2"}
Scopes == {None} \cup ChanIds
UserIds == {"u1"}
MsgIds == {"m1", "m2"}
AssetIds == {"a1"}

\* src/src/lib.rs Profile: id and username are kept, the other fields are None
Profile(id, username) == [id |-> id, username |-> username]
Profiles == {Profile("u1", "alice"), Profile("u2", "bob")}

\* src/src/lib.rs Message: id and one content fragment are kept
Message(id, content) == [id |-> id, content |-> content]
Messages == {Message("m1", "x"), Message("m2", "x"), Message(None, "x")}

\* src/src/lib.rs Asset: the variant is Emote; id and pattern are kept
Asset(id, pattern) == [id |-> id, pattern |-> pattern]
Assets == {Asset("a1", "p")}

\* src/src/lib.rs Channel
Channel(id, name, channel_type) == [id |-> id, name |-> name, channel_type |-> channel_type]
Channels == {Channel(c, "lobby", "Direct") : c \in ChanIds}

(***************************************************************************)
(* ConnectionEvent (src/src/connection/mod.rs).                            *)
(***************************************************************************)
StatusEvents ==
    {[family |-> "Status", kind |-> k] : k \in {"Connected", "Disconnected", "Ping"}}

ChannelEvents ==
    {[family |-> "Channel", kind |-> "New", channel |-> ch] : ch \in Channels}
    \cup {[family |-> "Channel", kind |-> "Update", channel_id |-> c, new_channel |-> ch] :
            c \in {"c1"}, ch \in {Channel("c1", "renamed", "Broadcast")}}
    \cup {[family |-> "Channel", kind |-> k, channel_id |-> c] :
            k \in {"Remove", "Join", "Leave", "Switch"}, c \in ChanIds}
    \cup {[family |-> "Channel", kind |-> "Kick", channel_id |-> None]}
    \cup {[family |-> "Channel", kind |-> "Wipe", channel_id |-> s] : s \in Scopes}
    \cup {[family |-> "Channel", kind |-> "ClearList"]}

UserEvents ==
    {[family |-> "User", kind |-> "New", channel_id |-> s, user |-> p] :
            s \in Scopes, p \in Profiles}
    \cup {[family |-> "User", kind |-> "Update", channel_id |-> s, user_id |-> u, new_user |-> p] :
            s \in Scopes, u \in UserIds, p \in {Profile("u1", "carol")}}
    \cup {[family |-> "User", kind |-> "Remove", channel_id |-> s, user_id |-> u] :
            s \in Scopes, u \in UserIds}
    \cup {[family |-> "User", kind |-> "ClearList", channel_id |-> s] : s \in Scopes}
    \cup {[family |-> "User", kind |-> "Identify", user_id |-> u] : u \in UserIds}

ChatEvents ==
    {[family |-> "Chat", kind |-> "New", channel_id |-> s, message |-> m] :
            s \in ChanIds, m \in Messages}
    \cup {[family |-> "Chat", kind |-> "New", channel_id |-> None, message |-> Message("m1", "x")]}
    \cup {[family |-> "Chat", kind |-> "Update", channel_id |-> s, message_id |-> i,
           new_message |-> m] :
            s \in {None, "c1"}, i \in MsgIds, m \in {Message("m1", "z")}}
    \cup {[family |-> "Chat", kind |-> "Remove", channel_id |-> s, message_id |-> i] :
            s \in {None, "c1"}, i \in MsgIds}

AssetEvents ==
    {[family |-> "Asset", kind |-> "New", channel_id |-> s, asset |-> a] :
            s \in Scopes, a \in Assets}
    \cup {[family |-> "Asset", kind |-> "Update", channel_id |-> s, asset_id |-> i,
           new_asset |-> a] :
            s \in Scopes, i \in AssetIds, a \in {Asset("a1", "q")}}
    \cup {[family |-> "Asset", kind |-> "Remove", channel_id |-> s, asset_id |-> i] :
            s \in Scopes, i \in AssetIds}
    \cup {[family |-> "Asset", kind |-> "ClearList", channel_id |-> s] : s \in Scopes}

ConnectionEvents == StatusEvents \cup ChannelEvents \cup UserEvents \cup ChatEvents \cup AssetEvents

(***************************************************************************)
(* std::collections::HashMap and Vec, as the reducers use them.            *)
(***************************************************************************)
EmptyMap == [k \in {} |-> None]

\* HashMap::insert(k, v): the old value of k, if any, is replaced
MapInsert(m, k, v) == [x \in DOMAIN m \cup {k} |-> IF x = k THEN v ELSE m[x]]

\* HashMap::remove(k): nothing happens when k is absent
MapRemove(m, k) == [x \in DOMAIN m \ {k} |-> m[x]]

\* a clear() that removes a single entry
MapClear_One(m) == IF DOMAIN m = {} THEN m ELSE MapRemove(m, CHOOSE k \in DOMAIN m : TRUE)

\* HashMap::clear()
MapClear(m) == EmptyMap

\* a removal that stops at the first message with the id
RECURSIVE Retain_FirstOnly(_, _)
Retain_FirstOnly(messages, message_id) ==
    IF messages = <<>> THEN <<>>
    ELSE IF Head(messages).id = message_id
         THEN Tail(messages)
         ELSE <<Head(messages)>> \o Retain_FirstOnly(Tail(messages), message_id)

\* Vec::retain(|m| m.id != Some(message_id)), element by element from the front
RECURSIVE Retain(_, _)
Retain(messages, message_id) ==
    IF messages = <<>> THEN <<>>
    ELSE IF Head(messages).id = message_id
         THEN Retain(Tail(messages), message_id)
         ELSE <<Head(messages)>> \o Retain(Tail(messages), message_id)

\* iter_mut().find(|m| m.id == Some(message_id)): index of the first match, 0 if none
RECURSIVE FindFrom(_, _, _)
FindFrom(messages, message_id, i) ==
    IF i > Len(messages) THEN 0
    ELSE IF messages[i].id = message_id THEN i
    ELSE FindFrom(messages, message_id, i + 1)

\* a find that falls back on the first message when nothing matches
Find_OrFirst(messages, message_id) ==
    LET i == FindFrom(messages, message_id, 1) IN
    IF i = 0 /\ messages # <<>> THEN 1 ELSE i

Find(messages, message_id) == FindFrom(messages, message_id, 1)

(***************************************************************************)
(* src/src/client/state.rs                                                 *)
(***************************************************************************)
ChannelState_new(channel) ==
    [channel |-> channel, users |-> EmptyMap, messages |-> <<>>, assets |-> EmptyMap]

ConnectionState_new(connection_id, protocol_name) ==
    [connection_id |-> connection_id,
     protocol_name |-> protocol_name,
     status |-> "Disconnected",
     channels |-> EmptyMap,
     current_channel |-> None,
     global_users |-> EmptyMap,
     global_assets |-> EmptyMap,
     current_user_id |-> None]

\* a get_or_create_channel that creates the channel as a direct one
get_or_create_channel_Direct(state, channel_id) ==
    IF channel_id \in DOMAIN state.channels THEN state
    ELSE [state EXCEPT !.channels =
            MapInsert(@, channel_id, ChannelState_new(Channel(channel_id, None, "Direct")))]

\* entry(channel_id).or_insert_with(...): the state with the channel present
get_or_create_channel(state, channel_id) ==
    IF channel_id \in DOMAIN state.channels THEN state
    ELSE [state EXCEPT !.channels =
            MapInsert(@, channel_id, ChannelState_new(Channel(channel_id, None, "Group")))]

\* unwrap_or_default() of an Option<String>
unwrap_or_default(opt) == IF opt = None THEN EmptyString ELSE opt

get_asset_id(asset) == asset.id

(***************************************************************************)
(* src/src/client/stateclient.rs: the process_* methods behind process(),  *)
(* one definition per match arm.                                           *)
(***************************************************************************)
\* a reducer that takes a ping for a loss of the connection
process_status_PingDisconnects(state, event) ==
    CASE event.kind = "Connected" -> [state EXCEPT !.status = "Connected"]
      [] OTHER -> [state EXCEPT !.status = "Disconnected"]

process_status(state, event) ==
    CASE event.kind = "Connected" -> [state EXCEPT !.status = "Connected"]
      [] event.kind = "Disconnected" -> [state EXCEPT !.status = "Disconnected"]
      [] event.kind = "Ping" -> state

process_channel_New(state, event) ==
    IF event.channel.id \in DOMAIN state.channels THEN state
    ELSE [state EXCEPT !.channels =
            MapInsert(@, event.channel.id, ChannelState_new(event.channel))]

process_channel_Update(state, event) ==
    IF event.channel_id \in DOMAIN state.channels
    THEN [state EXCEPT !.channels[event.channel_id].channel = event.new_channel]
    ELSE state

process_channel_Remove(state, event) ==
    [state EXCEPT !.channels = MapRemove(@, event.channel_id)]

process_channel_Join(state, event) == get_or_create_channel(state, event.channel_id)

process_channel_Leave(state, event) ==
    IF state.current_channel = event.channel_id
    THEN [state EXCEPT !.current_channel = None]
    ELSE state

\* a Switch that also creates the channel it switches to
process_channel_Switch_Create(state, event) ==
    [get_or_create_channel(state, event.channel_id)
        EXCEPT !.current_channel = event.channel_id]

process_channel_Switch(state, event) ==
    [state EXCEPT !.current_channel = event.channel_id]

process_channel_Kick(state, event) == [state EXCEPT !.current_channel = None]

process_channel_Wipe(state, event) ==
    IF event.channel_id # None /\ event.channel_id \in DOMAIN state.channels
    THEN [state EXCEPT !.channels[event.channel_id].messages = <<>>]
    ELSE state

process_channel_ClearList(state, event) == [state EXCEPT !.channels = MapClear(@)]

process_channel(state, event) ==
    CASE event.kind = "New" -> process_channel_New(state, event)
      [] event.kind = "Update" -> process_channel_Update(state, event)
      [] event.kind = "Remove" -> process_channel_Remove(state, event)
      [] event.kind = "Join" -> process_channel_Join(state, event)
      [] event.kind = "Leave" -> process_channel_Leave(state, event)
      [] event.kind = "Switch" -> process_channel_Switch(state, event)
      [] event.kind = "Kick" -> process_channel_Kick(state, event)
      [] event.kind = "Wipe" -> process_channel_Wipe(state, event)
      [] event.kind = "ClearList" -> process_channel_ClearList(state, event)

\* a User::New that takes the default channel id for the scope None
process_user_New_DefaultScope(state, event) ==
    LET user_id == unwrap_or_default(event.user.id)
        cid == unwrap_or_default(event.channel_id) IN
    [get_or_create_channel(state, cid)
        EXCEPT !.channels[cid].users = MapInsert(@, user_id, event.user)]

process_user_New(state, event) ==
    LET user_id == unwrap_or_default(event.user.id) IN
    IF event.channel_id # None
    THEN [get_or_create_channel(state, event.channel_id)
            EXCEPT !.channels[event.channel_id].users = MapInsert(@, user_id, event.user)]
    ELSE [state EXCEPT !.global_users = MapInsert(@, user_id, event.user)]

process_user_Update(state, event) ==
    IF event.channel_id # None
    THEN IF event.channel_id \in DOMAIN state.channels
         THEN [state EXCEPT !.channels[event.channel_id].users =
                              MapInsert(@, event.user_id, event.new_user)]
         ELSE state
    ELSE [state EXCEPT !.global_users = MapInsert(@, event.user_id, event.new_user)]

process_user_Remove(state, event) ==
    IF event.channel_id # None
    THEN IF event.channel_id \in DOMAIN state.channels
         THEN [state EXCEPT !.channels[event.channel_id].users = MapRemove(@, event.user_id)]
         ELSE state
    ELSE [state EXCEPT !.global_users = MapRemove(@, event.user_id)]

process_user_ClearList(state, event) ==
    IF event.channel_id # None
    THEN IF event.channel_id \in DOMAIN state.channels
         THEN [state EXCEPT !.channels[event.channel_id].users = MapClear(@)]
         ELSE state
    ELSE [state EXCEPT !.global_users = MapClear(@)]

process_user_Identify(state, event) == [state EXCEPT !.current_user_id = event.user_id]

process_user(state, event) ==
    CASE event.kind = "New" -> process_user_New(state, event)
      [] event.kind = "Update" -> process_user_Update(state, event)
      [] event.kind = "Remove" -> process_user_Remove(state, event)
      [] event.kind = "ClearList" -> process_user_ClearList(state, event)
      [] event.kind = "Identify" -> process_user_Identify(state, event)

\* a reducer that files a message without a scope under the current channel
process_chat_New_CurrentChannel(state, event) ==
    LET cid == IF event.channel_id # None THEN event.channel_id ELSE state.current_channel IN
    IF cid # None
    THEN [get_or_create_channel(state, cid)
            EXCEPT !.channels[cid].messages = Append(@, event.message)]
    ELSE state

process_chat_New(state, event) ==
    IF event.channel_id # None
    THEN [get_or_create_channel(state, event.channel_id)
            EXCEPT !.channels[event.channel_id].messages = Append(@, event.message)]
    ELSE state

process_chat_Update(state, event) ==
    IF event.channel_id # None /\ event.channel_id \in DOMAIN state.channels
    THEN LET i == Find(state.channels[event.channel_id].messages, event.message_id) IN
         IF i # 0
         THEN [state EXCEPT !.channels[event.channel_id].messages[i] = event.new_message]
         ELSE state
    ELSE state

process_chat_Remove(state, event) ==
    IF event.channel_id # None /\ event.channel_id \in DOMAIN state.channels
    THEN [state EXCEPT !.channels[event.channel_id].messages = Retain(@, event.message_id)]
    ELSE state

process_chat(state, event) ==
    CASE event.kind = "New" -> process_chat_New(state, event)
      [] event.kind = "Update" -> process_chat_Update(state, event)
      [] event.kind = "Remove" -> process_chat_Remove(state, event)

process_asset_New(state, event) ==
    LET asset_id == unwrap_or_default(get_asset_id(event.asset)) IN
    IF event.channel_id # None
    THEN [get_or_create_channel(state, event.channel_id)
            EXCEPT !.channels[event.channel_id].assets = MapInsert(@, asset_id, event.asset)]
    ELSE [state EXCEPT !.global_assets = MapInsert(@, asset_id, event.asset)]

process_asset_Update(state, event) ==
    IF event.channel_id # None
    THEN IF event.channel_id \in DOMAIN state.channels
         THEN [state EXCEPT !.channels[event.channel_id].assets =
                              MapInsert(@, event.asset_id, event.new_asset)]
         ELSE state
    ELSE [state EXCEPT !.global_assets = MapInsert(@, event.asset_id, event.new_asset)]

process_asset_Remove(state, event) ==
    IF event.channel_id # None
    THEN IF event.channel_id \in DOMAIN state.channels
         THEN [state EXCEPT !.channels[event.channel_id].assets =
                              MapRemove(@, event.asset_id)]
         ELSE state
    ELSE [state EXCEPT !.global_assets = MapRemove(@, event.asset_id)]

process_asset_ClearList(state, event) ==
    IF event.channel_id # None
    THEN IF event.channel_id \in DOMAIN state.channels
         THEN [state EXCEPT !.channels[event.channel_id].assets = MapClear(@)]
         ELSE state
    ELSE [state EXCEPT !.global_assets = MapClear(@)]

process_asset(state, event) ==
    CASE event.kind = "New" -> process_asset_New(state, event)
      [] event.kind = "Update" -> process_asset_Update(state, event)
      [] event.kind = "Remove" -> process_asset_Remove(state, event)
      [] event.kind = "ClearList" -> process_asset_ClearList(state, event)

\* the match of StateClient::process on the event family
process_match(state, event) ==
    CASE event.family = "Status" -> process_status(state, event)
      [] event.family = "Channel" -> process_channel(state, event)
      [] event.family = "User" -> process_user(state, event)
      [] event.family = "Chat" -> process_chat(state, event)
      [] event.family = "Asset" -> process_asset(state, event)

(***************************************************************************)
(* src/src/client/stateclient.rs: the free function process_event, the     *)
(* reducer of the spawn_processor task, arm by arm.                        *)
(***************************************************************************)
process_event_status(state, event) ==
    CASE event.kind = "Connected" -> [state EXCEPT !.status = "Connected"]
      [] event.kind = "Disconnected" -> [state EXCEPT !.status = "Disconnected"]
      [] event.kind = "Ping" -> state

process_event_channel(state, event) ==
    CASE event.kind = "New" ->
            IF event.channel.id \in DOMAIN state.channels THEN state
            ELSE [state EXCEPT !.channels =
                    MapInsert(@, event.channel.id, ChannelState_new(event.channel))]
      [] event.kind = "Update" ->
            IF event.channel_id \in DOMAIN state.channels
            THEN [state EXCEPT !.channels[event.channel_id].channel = event.new_channel]
            ELSE state
      [] event.kind = "Remove" ->
            [state EXCEPT !.channels = MapRemove(@, event.channel_id)]
      [] event.kind = "Join" -> get_or_create_channel(state, event.channel_id)
      [] event.kind = "Leave" ->
            IF state.current_channel = event.channel_id
            THEN [state EXCEPT !.current_channel = None]
            ELSE state
      [] event.kind = "Switch" -> [state EXCEPT !.current_channel = event.channel_id]
      [] event.kind = "Kick" -> [state EXCEPT !.current_channel = None]
      [] event.kind = "Wipe" ->
            IF event.channel_id # None /\ event.channel_id \in DOMAIN state.channels
            THEN [state EXCEPT !.channels[event.channel_id].messages = <<>>]
            ELSE state
      [] event.kind = "ClearList" -> [state EXCEPT !.channels = MapClear(@)]

process_event_user(state, event) ==
    CASE event.kind = "New" ->
            LET uid == unwrap_or_default(event.user.id) IN
            IF event.channel_id # None
            THEN [get_or_create_channel(state, event.channel_id)
                    EXCEPT !.channels[event.channel_id].users = MapInsert(@, uid, event.user)]
            ELSE [state EXCEPT !.global_users = MapInsert(@, uid, event.user)]
      [] event.kind = "Update" ->
            IF event.channel_id # None
            THEN IF event.channel_id \in DOMAIN state.channels
                 THEN [state EXCEPT !.channels[event.channel_id].users =
                                      MapInsert(@, event.user_id, event.new_user)]
                 ELSE state
            ELSE [state EXCEPT !.global_users = MapInsert(@, event.user_id, event.new_user)]
      [] event.kind = "Remove" ->
            IF event.channel_id # None
            THEN IF event.channel_id \in DOMAIN state.channels
                 THEN [state EXCEPT !.channels[event.channel_id].users =
                                      MapRemove(@, event.user_id)]
                 ELSE state
            ELSE [state EXCEPT !.global_users = MapRemove(@, event.user_id)]
      [] event.kind = "ClearList" ->
            IF event.channel_id # None
            THEN IF event.channel_id \in DOMAIN state.channels
                 THEN [state EXCEPT !.channels[event.channel_id].users = MapClear(@)]
                 ELSE state
            ELSE [state EXCEPT !.global_users = MapClear(@)]
      [] event.kind = "Identify" -> [state EXCEPT !.current_user_id = event.user_id]

process_event_chat(state, event) ==
    CASE event.kind = "New" ->
            IF event.channel_id # None
            THEN [get_or_create_channel(state, event.channel_id)
                    EXCEPT !.channels[event.channel_id].messages = Append(@, event.message)]
            ELSE state
      [] event.kind = "Update" ->
            IF event.channel_id # None /\ event.channel_id \in DOMAIN state.channels
            THEN LET i == Find(state.channels[event.channel_id].messages, event.message_id) IN
                 IF i # 0
                 THEN [state EXCEPT !.channels[event.channel_id].messages[i] =
                                      event.new_message]
                 ELSE state
            ELSE state
      [] event.kind = "Remove" ->
            IF event.channel_id # None /\ event.channel_id \in DOMAIN state.channels
            THEN [state EXCEPT !.channels[event.channel_id].messages =
                                 Retain(@, event.message_id)]
            ELSE state

process_event_asset(state, event) ==
    CASE event.kind = "New" ->
            LET aid == unwrap_or_default(get_asset_id(event.asset)) IN
            IF event.channel_id # None
            THEN [get_or_create_channel(state, event.channel_id)
                    EXCEPT !.channels[event.channel_id].assets = MapInsert(@, aid, event.asset)]
            ELSE [state EXCEPT !.global_assets = MapInsert(@, aid, event.asset)]
      [] event.kind = "Update" ->
            IF event.channel_id # None
            THEN IF event.channel_id \in DOMAIN state.channels
                 THEN [state EXCEPT !.channels[event.channel_id].assets =
                                      MapInsert(@, event.asset_id, event.new_asset)]
                 ELSE state
            ELSE [state EXCEPT !.global_assets = MapInsert(@, event.asset_id, event.new_asset)]
      [] event.kind = "Remove" ->
            IF event.channel_id # None
            THEN IF event.channel_id \in DOMAIN state.channels
                 THEN [state EXCEPT !.channels[event.channel_id].assets =
                                      MapRemove(@, event.asset_id)]
                 ELSE state
            ELSE [state EXCEPT !.global_assets = MapRemove(@, event.asset_id)]
      [] event.kind = "ClearList" ->
            IF event.channel_id # None
            THEN IF event.channel_id \in DOMAIN state.channels
                 THEN [state EXCEPT !.channels[event.channel_id].assets = MapClear(@)]
                 ELSE state
            ELSE [state EXCEPT !.global_assets = MapClear(@)]

\* a process_event that has no arm for the Status family
process_event_NoStatus(state, event) ==
    CASE event.family = "Status" -> state
      [] event.family = "Channel" -> process_event_channel(state, event)
      [] event.family = "User" -> process_event_user(state, event)
      [] event.family = "Chat" -> process_event_chat(state, event)
      [] event.family = "Asset" -> process_event_asset(state, event)

process_event(state, event) ==
    CASE event.family = "Status" -> process_event_status(state, event)
      [] event.family = "Channel" -> process_event_channel(state, event)
      [] event.family = "User" -> process_event_user(state, event)
      [] event.family = "Chat" -> process_event_chat(state, event)
      [] event.family = "Asset" -> process_event_asset(state, event)

(***************************************************************************)
(* The StateClient as a state machine.                                     *)
(*   storage  InMemoryStorage.connections behind the RwLock                *)
(*   uuids    the connection ids Uuid::new_v4 has produced so far          *)
(*   tasks    per connection id, the task of spawn_processor: "none",      *)
(*            "running" while its source has a sender, "draining" once     *)
(*            every sender was dropped, "finished" when its loop ended     *)
(*   rx       per connection id, the queue the task receives from          *)
(* History of the run, read by the properties only:                        *)
(*   tracked  the ids returned by track() and not yet passed to untrack()  *)
(*   pre      storage as it was before the last operation                  *)
(*   last     the last operation, its connection id and its event          *)
(*   serial   per connection, the projection process() builds when it is   *)
(*            handed each event at the moment the event is sent            *)
(*   nevents  number of events handed to process() or sent so far          *)
(***************************************************************************)
VARIABLES storage, uuids, tasks, rx, tracked, pre, last, serial, nevents

NoEvent == [family |-> "None", kind |-> "None"]

clientvars == <<storage, uuids, tasks, rx, tracked, pre, last, serial, nevents>>

(***************************************************************************)
(* The SockchatConnection (src/src/connection/sockchat.rs).                *)
(*   auth         SockchatConnection.auth, the fields of set_auth          *)
(*   event_rx     "Some" while the receiver of the event queue is still    *)
(*                held by the connection, "None" once subscribe() took it  *)
(*   event_tx     the unbounded queue behind event_tx, oldest event first; *)
(*                each entry is the event and, for the properties only,    *)
(*                who published it (by)                                    *)
(*   ws_tx        every frame accepted by the broadcast queue behind       *)
(*                ws_tx, in order; a receiver is a cursor into it          *)
(*   assets       SockchatConnection.assets, the asset catalog             *)
(*   conn_tasks   SockchatConnection.tasks, the JoinHandles as             *)
(*                <<session, task>>                                        *)
(*   shutdown_tx  NoSender, or the session whose oneshot sender is held    *)
(*   session      per successful connect(), the transport and the three    *)
(*                tasks spawned on it                                      *)
(*   dropped      whether the owner has dropped the SockchatConnection,    *)
(*                and with it the senders it holds                         *)
(* History of the run, read by the properties only:                        *)
(*   call         the last step: a call of the Connection interface with   *)
(*                its result, or a step of a task                          *)
(*   consumers    number of receivers subscribe() has handed out           *)
(*   ncalls       number of connect(), disconnect() and send() calls       *)
(*   nframes      number of inbound frames and keepalive pings so far      *)
(***************************************************************************)
VARIABLES auth, event_rx, event_tx, ws_tx, assets, conn_tasks, shutdown_tx, session,
          dropped, call, consumers, ncalls, nframes

sockvars == <<auth, event_rx, event_tx, ws_tx, assets, conn_tasks, shutdown_tx, session,
              dropped, call, consumers, ncalls, nframes>>

(***************************************************************************)
(* The subscriber of the SockchatConnection: the holder of the receiver    *)
(* subscribe() returned.                                                   *)
(*   received     the entries of the event queue it has taken so far       *)
(***************************************************************************)
VARIABLES received

(***************************************************************************)
(* The StateClient of src/src/client.rs: accounts that own connections, a  *)
(* folding task per connection and the selected context.                   *)
(*   accounts     StateClient.accounts behind the RwLock: per account id   *)
(*                the AccountClient                                        *)
(*   selected     StateClient.selected: Absent or Some(SelectedContext)    *)
(*   conns        the Connection objects handed to add_connection, by the  *)
(*                connection id they got: the events their send() took,    *)
(*                the number of disconnect() calls, whether the object was *)
(*                dropped, and the events they published                   *)
(*   folds        per connection id, the task add_connection spawned: its  *)
(*                account, the broadcast receiver it reads (the values     *)
(*                waiting for it and the number it missed) and whether it  *)
(*                still runs                                               *)
(*   made         the ids Uuid::new_v4 has produced so far                 *)
(* History of the run, read by the properties only:                        *)
(*   did          the last step: a call with the ids it was given or made   *)
(*                and its result, or a step of a folding task              *)
(*   nsent        number of events handed to send() or published so far    *)
(***************************************************************************)
VARIABLES accounts, selected, conns, folds, made, did, nsent

muxvars == <<accounts, selected, conns, folds, made, did, nsent>>

(***************************************************************************)
(* The locks of the two StateClients and the threads that take them, for   *)
(* the runs that follow a call from one await to the next.                 *)
(*   rwlock       per lock (the RwLock of the store of stateclient.rs, the *)
(*                two RwLocks of client.rs and the Mutex around each of    *)
(*                its connections), the guards that are out: the thread    *)
(*                holding the exclusive guard (None when nobody does) and  *)
(*                the threads holding a shared guard; and the requests     *)
(*                that wait for a guard, oldest first                      *)
(*   threads      per thread, where it stands in its call (pc) and the     *)
(*                arguments and local variables of the call                *)
(* History of the run, read by the properties only:                        *)
(*   applied      the events whose application is complete, in the order   *)
(*                the write guards were dropped, each with its source      *)
(*   issued       per source, the events it handed over so far, in order   *)
(*   seen         Absent, or the last value a reader got and the number of *)
(*                events applied at that moment                            *)
(***************************************************************************)
VARIABLES rwlock, threads, applied, issued, seen

lockvars == <<rwlock, threads, applied, issued, seen>>

vars == <<clientvars, sockvars, received, muxvars, lockvars>>

\* the threads of the runs on the store of stateclient.rs: a caller of
\* process(), the task of spawn_processor and a caller of the getters
Callers == {"caller"}

Writers == Callers \cup {"task"}

Readers == {"reader"}

\* the threads of the runs on the StateClient of client.rs: two callers, and
\* the folding task of each connection, named by the connection id
Users == {"user1", "user2"}

\* RwLock::new and Mutex::new: no guard is out and no request waits
RwLock_new == [writer |-> None, readers |-> {}, queue |-> <<>>]

\* a thread outside every call
Thread_new == [pc |-> "idle", id |-> None, event |-> NoEvent]

\* the locks and threads before any call
locks_new ==
    /\ rwlock = [l \in {"storage", "accounts", "selected"} \cup ConnIds |-> RwLock_new]
    /\ threads = [t \in Writers \cup Readers \cup Users \cup ConnIds |-> Thread_new]
    /\ applied = <<>>
    /\ issued = [t \in Writers |-> <<>>]
    /\ seen = <<>>


\* Option<oneshot::Sender<()>>::None
NoSender == 0

\* the fields of the SockchatConnection, as one record
Conn ==
    [auth |-> auth, event_rx |-> event_rx, event_tx |-> event_tx, ws_tx |-> ws_tx,
     assets |-> assets, conn_tasks |-> conn_tasks, shutdown_tx |-> shutdown_tx,
     session |-> session]

\* SockchatConnection::new(): no auth field, the receiver of the event queue in
\* place, an empty catalog, no task and no shutdown handle
SockchatConnection_new ==
    /\ auth = <<>>
    /\ event_rx = "Some"
    /\ event_tx = <<>>
    /\ ws_tx = <<>>
    /\ assets = <<>>
    /\ conn_tasks = <<>>
    /\ shutdown_tx = NoSender
    /\ session = <<>>
    /\ dropped = FALSE
    /\ call = [op |-> "new", result |-> "Ok", event |-> NoEvent]
    /\ consumers = 0
    /\ ncalls = 0
    /\ nframes = 0

\* the last step of the StateClient of client.rs
Did(op, account, connection, result, event) ==
    [op |-> op, account |-> account, connection |-> connection, result |-> result,
     event |-> event]

\* StateClient::new() of client.rs: no account, no selected context
client_new ==
    /\ accounts = [a \in {} |-> None]
    /\ selected = <<>>
    /\ conns = [c \in {} |-> None]
    /\ folds = [c \in {} |-> None]
    /\ made = {}
    /\ did = Did("new", None, None, "Ok", NoEvent)
    /\ nsent = 0

Op(op, id, event) == [op |-> op, id |-> id, event |-> event]

\* StateClient::new() and InMemoryStorage::new(): no connection, nothing spawned
Init ==
    /\ storage = EmptyMap
    /\ uuids = {}
    /\ tasks = [id \in ConnIds |-> "none"]
    /\ rx = [id \in ConnIds |-> <<>>]
    /\ tracked = {}
    /\ pre = EmptyMap
    /\ last = Op("new", None, NoEvent)
    /\ serial = EmptyMap
    /\ nevents = 0
    /\ SockchatConnection_new
    /\ received = <<>>
    /\ client_new
    /\ locks_new

\* Uuid::new_v4(): an id that was never produced before; the ids are opaque, so
\* which of the unused ones it is makes no difference
new_v4 == CHOOSE connection_id \in ConnIds \ uuids : TRUE

\* a process() that hands the event to every tracked projection
process_Broadcast(connections, connection_id, event) ==
    IF connection_id \in DOMAIN connections
    THEN [id \in DOMAIN connections |-> process_match(connections[id], event)]
    ELSE connections

\* StateClient::process: the early return for an untracked id, then the match
process(connections, connection_id, event) ==
    IF connection_id \in DOMAIN connections
    THEN [connections EXCEPT ![connection_id] = process_match(@, event)]
    ELSE connections

\* a loop body that gets or creates the projection of its connection
processor_apply_OrInsert(connections, connection_id, event) ==
    MapInsert(connections, connection_id,
              process_event(IF connection_id \in DOMAIN connections
                            THEN connections[connection_id]
                            ELSE ConnectionState_new(connection_id, "mock"),
                            event))

\* one iteration of the loop of spawn_processor on a received event
processor_apply(connections, connection_id, event) ==
    IF connection_id \in DOMAIN connections
    THEN [connections EXCEPT ![connection_id] = process_event(@, event)]
    ELSE connections

\* StateClient::track
Track(protocol_name) ==
    /\ uuids # ConnIds
    /\ LET connection_id == new_v4 IN
        /\ storage' = MapInsert(storage, connection_id,
                                ConnectionState_new(connection_id, protocol_name))
        /\ uuids' = uuids \cup {connection_id}
        /\ tracked' = tracked \cup {connection_id}
        /\ serial' = MapInsert(serial, connection_id,
                               ConnectionState_new(connection_id, protocol_name))
        /\ last' = Op("track", connection_id, NoEvent)
    /\ pre' = storage
    /\ UNCHANGED <<tasks, rx, nevents>>
    /\ UNCHANGED <<sockvars, received, muxvars, lockvars>>

\* StateClient::untrack
Untrack(connection_id) ==
    /\ storage' = MapRemove(storage, connection_id)
    /\ tracked' = tracked \ {connection_id}
    /\ serial' = MapRemove(serial, connection_id)
    /\ last' = Op("untrack", connection_id, NoEvent)
    /\ pre' = storage
    /\ UNCHANGED <<uuids, tasks, rx, nevents>>
    /\ UNCHANGED <<sockvars, received, muxvars, lockvars>>

\* StateClient::process
Process(connection_id, event) ==
    /\ storage' = process(storage, connection_id, event)
    /\ serial' = process(serial, connection_id, event)
    /\ last' = Op("process", connection_id, event)
    /\ pre' = storage
    /\ nevents' = nevents + 1
    /\ UNCHANGED <<uuids, tasks, rx, tracked>>
    /\ UNCHANGED <<sockvars, received, muxvars, lockvars>>

\* StateClient::spawn_processor for an id track() returned: the task starts on
\* the receiving half of a queue
SpawnProcessor(connection_id) ==
    /\ connection_id \in uuids
    /\ tasks[connection_id] = "none"
    /\ tasks' = [tasks EXCEPT ![connection_id] = "running"]
    /\ last' = Op("spawn_processor", connection_id, NoEvent)
    /\ pre' = storage
    /\ UNCHANGED <<storage, uuids, rx, tracked, serial, nevents>>
    /\ UNCHANGED <<sockvars, received, muxvars, lockvars>>

\* the publisher sends one event on the unbounded queue of the task
Send(connection_id, event) ==
    /\ tasks[connection_id] = "running"
    /\ rx' = [rx EXCEPT ![connection_id] = Append(@, event)]
    /\ serial' = process(serial, connection_id, event)
    /\ last' = Op("send", connection_id, event)
    /\ pre' = storage
    /\ nevents' = nevents + 1
    /\ UNCHANGED <<storage, uuids, tasks, tracked>>
    /\ UNCHANGED <<sockvars, received, muxvars, lockvars>>

\* spawn_processor: rx.recv() yields Some(event), applied under the write lock
ProcessorStep(connection_id) ==
    /\ tasks[connection_id] \in {"running", "draining"}
    /\ rx[connection_id] # <<>>
    /\ LET event == Head(rx[connection_id]) IN
        /\ storage' = processor_apply(storage, connection_id, event)
        /\ last' = Op("processor", connection_id, event)
    /\ rx' = [rx EXCEPT ![connection_id] = Tail(@)]
    /\ pre' = storage
    /\ UNCHANGED <<uuids, tasks, tracked, serial, nevents>>
    /\ UNCHANGED <<sockvars, received, muxvars, lockvars>>

\* the publisher drops the sending half of the queue of the task
CloseSource(connection_id) ==
    /\ tasks[connection_id] = "running"
    /\ tasks' = [tasks EXCEPT ![connection_id] = "draining"]
    /\ last' = Op("close", connection_id, NoEvent)
    /\ pre' = storage
    /\ UNCHANGED <<storage, uuids, rx, tracked, serial, nevents>>
    /\ UNCHANGED <<sockvars, received, muxvars, lockvars>>

\* a receiver that reports the end as soon as the sender is gone
recv_None_Undrained(task, queue) == task = "draining"

\* UnboundedReceiver::recv() yields None: every sender was dropped and no
\* event is left in the queue
recv_None(task, queue) == task = "draining" /\ queue = <<>>

\* spawn_processor: rx.recv() yields None, the while let loop and the task end
ProcessorExit(connection_id) ==
    /\ recv_None(tasks[connection_id], rx[connection_id])
    /\ tasks' = [tasks EXCEPT ![connection_id] = "finished"]
    /\ last' = Op("exit", connection_id, NoEvent)
    /\ pre' = storage
    /\ UNCHANGED <<storage, uuids, rx, tracked, serial, nevents>>
    /\ UNCHANGED <<sockvars, received, muxvars, lockvars>>

(***************************************************************************)
(* Spec: every operation of the StateClient on two connections.            *)
(***************************************************************************)
Next ==
    \/ \E protocol_name \in ProtocolNames : Track(protocol_name)
    \/ \E connection_id \in ConnIds : Untrack(connection_id)
    \/ \E connection_id \in ConnIds, event \in ConnectionEvents :
            nevents < MaxEvents /\ Process(connection_id, event)
    \/ \E connection_id \in ConnIds : SpawnProcessor(connection_id)
    \/ \E connection_id \in ConnIds, event \in ConnectionEvents :
            nevents < MaxEvents /\ Send(connection_id, event)
    \/ \E connection_id \in ConnIds : ProcessorStep(connection_id)

Spec == Init /\ [][Next]_vars

(***************************************************************************)
(* SpecProcess: one client tracks one connection and hands it events with  *)
(* process(), one at a time: the runs that look at the reducer in depth.   *)
(***************************************************************************)
NextProcess ==
    \/ \E protocol_name \in ProtocolNames : uuids = {} /\ Track(protocol_name)
    \/ \E connection_id \in tracked, event \in ConnectionEvents :
            nevents < MaxSteps /\ Process(connection_id, event)

SpecProcess == Init /\ [][NextProcess]_vars

(***************************************************************************)
(* SpecBatch: one tracked connection fed only through the queue of its     *)
(* spawn_processor task.                                                   *)
(***************************************************************************)
NextBatch ==
    \/ \E protocol_name \in ProtocolNames : uuids = {} /\ Track(protocol_name)
    \/ \E connection_id \in tracked : SpawnProcessor(connection_id)
    \/ \E connection_id \in tracked, event \in ConnectionEvents :
            nevents < MaxBatch /\ Send(connection_id, event)
    \/ \E connection_id \in tracked : ProcessorStep(connection_id)

SpecBatch == Init /\ [][NextBatch]_vars

(***************************************************************************)
(* SpecDrain: one connection, tracked and later perhaps untracked, fed     *)
(* through the queue of its spawn_processor task until the publisher drops *)
(* the sender; the runtime keeps polling the task.                         *)
(***************************************************************************)
\* the events sent in SpecDrain: the status events, the joins and leaves and
\* the new messages
DrainEvents ==
    {event \in ConnectionEvents :
        \/ event.family = "Status"
        \/ event.family = "Channel" /\ event.kind \in {"Join", "Leave"}
        \/ event.family = "Chat" /\ event.kind = "New"}

NextDrain ==
    \/ \E protocol_name \in ProtocolNames : uuids = {} /\ Track(protocol_name)
    \/ \E connection_id \in tracked : Untrack(connection_id)
    \/ \E connection_id \in tracked : SpawnProcessor(connection_id)
    \/ \E connection_id \in ConnIds, event \in DrainEvents :
            nevents < MaxBatch /\ Send(connection_id, event)
    \/ \E connection_id \in ConnIds : ProcessorStep(connection_id)
    \/ \E connection_id \in ConnIds : CloseSource(connection_id)
    \/ \E connection_id \in ConnIds : ProcessorExit(connection_id)

DrainFairness ==
    \A connection_id \in ConnIds :
        /\ WF_vars(ProcessorStep(connection_id))
        /\ WF_vars(ProcessorExit(connection_id))

SpecDrain == Init /\ [][NextDrain]_vars /\ DrainFairness

(***************************************************************************)
(* Read accessors of the StateClient (src/src/client/stateclient.rs).      *)
(***************************************************************************)
\* Option<T> of a returned struct: Some(x), or Absent for None
Some(x) == <<x>>

Absent == <<>>

\* StateClient::list_connections, as the set of the ids it lists
list_connections(connections) == DOMAIN connections

\* StateClient::get_connection: None for an untracked id
get_connection(connections, connection_id) ==
    IF connection_id \in DOMAIN connections THEN Some(connections[connection_id]) ELSE Absent

\* StateClient::get_user, as the set of the values it can return: the global map
\* is looked up first, then state.channels.values() in the order of the HashMap,
\* which is any order
get_user(connections, connection_id, user_id) ==
    IF connection_id \notin DOMAIN connections THEN {Absent}
    ELSE LET state == connections[connection_id]
             holders == {c \in DOMAIN state.channels : user_id \in DOMAIN state.channels[c].users}
         IN IF user_id \in DOMAIN state.global_users THEN {Some(state.global_users[user_id])}
            ELSE IF holders # {} THEN {Some(state.channels[c].users[user_id]) : c \in holders}
            ELSE {Absent}

\* StateClient::get_messages: empty for an untracked id or an absent channel
get_messages(connections, connection_id, channel_id) ==
    IF connection_id \notin DOMAIN connections THEN <<>>
    ELSE IF channel_id \notin DOMAIN connections[connection_id].channels THEN <<>>
    ELSE connections[connection_id].channels[channel_id].messages

(***************************************************************************)
(* Properties.  Applied: the last operation was process() on a connection  *)
(* that was tracked; Before and After are its projection around the call.  *)
(***************************************************************************)
Applied == last.op = "process" /\ last.id \in DOMAIN pre

Before == pre[last.id]

After == storage[last.id]

Scoped == last.event.channel_id # None

ScopedNew ==
    /\ last.event.family \in {"User", "Chat", "Asset"}
    /\ last.event.kind = "New"
    /\ Scoped

C1_Case ==
    /\ Applied
    /\ last.event.family \in {"User", "Asset"}
    /\ last.event.kind \in {"New", "Update", "Remove", "ClearList"}
    /\ ~Scoped

\* C1: a User or Asset event (New, Update, Remove, ClearList) with scope None,
\* processed on a tracked connection, changes nothing but the global user map
\* (User) or the global asset map (Asset) of that connection: the channel map
\* keeps its keys and every ChannelState, and no channel is created.
C1_GlobalScopeLeavesChannels ==
    C1_Case =>
        /\ After.channels = Before.channels
        /\ last.event.family = "User" =>
                After = [Before EXCEPT !.global_users = After.global_users]
        /\ last.event.family = "Asset" =>
                After = [Before EXCEPT !.global_assets = After.global_assets]
        /\ \A id \in DOMAIN pre \ {last.id} : storage[id] = pre[id]

\* a global User event that changed the global map of a projection with channels
C1_Witness ==
    /\ C1_Case
    /\ last.event.family = "User"
    /\ Before.channels # EmptyMap
    /\ After.global_users # Before.global_users

C2_Case ==
    /\ Applied
    /\ \/ ScopedNew
       \/ last.event.family = "Channel" /\ last.event.kind = "Join"
    /\ last.event.channel_id \notin DOMAIN Before.channels

\* the ChannelState the claim expects for the lazily created channel
C2_Created ==
    LET fresh == ChannelState_new(Channel(last.event.channel_id, None, "Group")) IN
    CASE last.event.family = "Channel" -> fresh
      [] last.event.family = "User" ->
            [fresh EXCEPT !.users = [k \in {last.event.user.id} |-> last.event.user]]
      [] last.event.family = "Chat" -> [fresh EXCEPT !.messages = <<last.event.message>>]
      [] last.event.family = "Asset" ->
            [fresh EXCEPT !.assets =
                [k \in {unwrap_or_default(last.event.asset.id)} |-> last.event.asset]]

\* the user of the event is stored nowhere in the projection before the event
C2_UserUnknown ==
    /\ last.event.user.id \notin DOMAIN Before.global_users
    /\ \A c \in DOMAIN Before.channels : last.event.user.id \notin DOMAIN Before.channels[c].users

\* C2 as stated: after User::New{Some(c), profile with id u} on a projection
\* without channel c, get_user(u) returns that profile.
C2_Original ==
    (C2_Case /\ last.event.family = "User") =>
        get_user(storage, last.id, last.event.user.id) = {Some(last.event.user)}

\* C2, amended: User::New, Chat::New or Asset::New with scope Some(c), or
\* Channel::Join{c}, on a projection without channel c creates c (kind group, no
\* name) holding exactly the inserted item and changes nothing else; after
\* User::New the channel has exactly one user, and get_user(u) returns the
\* profile when u was stored nowhere else in the projection.
C2_LazyChannelCreation ==
    C2_Case =>
        /\ After.channels =
                MapInsert(Before.channels, last.event.channel_id, C2_Created)
        /\ After = [Before EXCEPT !.channels = After.channels]
        /\ last.event.family = "User" =>
            /\ Cardinality(DOMAIN After.channels[last.event.channel_id].users) = 1
            /\ C2_UserUnknown =>
                    get_user(storage, last.id, last.event.user.id) = {Some(last.event.user)}

\* User::New created the channel, next to another channel, for an unknown user
C2_Witness ==
    /\ C2_Case
    /\ last.event.family = "User"
    /\ Before.channels # EmptyMap
    /\ C2_UserUnknown
    /\ Some(last.event.user) \in get_user(storage, last.id, last.event.user.id)

C3_Case ==
    /\ Applied
    /\ last.event.family \in {"User", "Asset"}
    /\ last.event.kind = "Update"
    /\ Scoped
    /\ last.event.channel_id \notin DOMAIN Before.channels

\* C3: User::Update or Asset::Update with scope Some(c) on a projection without
\* channel c creates c and stores the new profile or asset in it.
C3_UpdateCreatesChannel ==
    C3_Case =>
        /\ last.event.channel_id \in DOMAIN After.channels
        /\ last.event.family = "User" =>
            /\ last.event.user_id \in DOMAIN After.channels[last.event.channel_id].users
            /\ After.channels[last.event.channel_id].users[last.event.user_id] =
                    last.event.new_user
        /\ last.event.family = "Asset" =>
            /\ last.event.asset_id \in DOMAIN After.channels[last.event.channel_id].assets
            /\ After.channels[last.event.channel_id].assets[last.event.asset_id] =
                    last.event.new_asset

\* no message of the target channel has the id the event names
C4_NoMatch ==
    \/ ~Scoped
    \/ last.event.channel_id \notin DOMAIN Before.channels
    \/ \A i \in 1..Len(Before.channels[last.event.channel_id].messages) :
            Before.channels[last.event.channel_id].messages[i].id # last.event.message_id

C4_Case ==
    /\ Applied
    /\ last.event.family = "Chat"
    /\ last.event.kind \in {"Update", "Remove"}
    /\ C4_NoMatch

\* C4: Chat::Update or Chat::Remove naming a message id that no message of the
\* target channel has (the channel may be absent) leaves the whole store as it
\* was and creates no channel.
C4_UnknownMessageIsNoOp == C4_Case => storage = pre

\* an Update for an unknown id on a channel that holds other messages
C4_Witness ==
    /\ C4_Case
    /\ last.event.kind = "Update"
    /\ Scoped
    /\ last.event.channel_id \in DOMAIN Before.channels
    /\ Before.channels[last.event.channel_id].messages # <<>>

\* the projection track() inserts, as the claim describes it
C5_Fresh(state) ==
    /\ state.status = "Disconnected"
    /\ DOMAIN state.channels = {}
    /\ DOMAIN state.global_users = {}
    /\ DOMAIN state.global_assets = {}
    /\ state.current_channel = None

\* C5: the store holds exactly one projection per id that track() returned and
\* untrack() has not yet been given: list_connections is that set of ids and
\* get_connection(id) is present exactly for them; track() returns an id that is
\* not tracked and inserts a fresh projection; process() and the steps of the
\* spawn_processor tasks add and remove no projection, so an event that arrives
\* after untrack(id) does not recreate the projection of id.
C5_OneProjectionPerTrackedId ==
    /\ list_connections(storage) = tracked
    /\ \A id \in ConnIds : (get_connection(storage, id) # Absent) <=> id \in tracked
    /\ \A id \in DOMAIN storage : storage[id].connection_id = id
    /\ last.op = "track" =>
        /\ last.id \notin DOMAIN pre
        /\ DOMAIN storage = DOMAIN pre \cup {last.id}
        /\ get_connection(storage, last.id) # Absent
        /\ C5_Fresh(get_connection(storage, last.id)[1])
    /\ last.op = "untrack" => DOMAIN storage = DOMAIN pre \ {last.id}
    /\ last.op \in {"process", "processor", "send", "spawn_processor"} =>
            DOMAIN storage = DOMAIN pre

\* the task of an untracked connection took an event from its queue while the
\* other connection was tracked
C5_Witness ==
    /\ last.op = "processor"
    /\ last.id \in uuids \ tracked
    /\ tracked # {}

\* C6: process(id, e) changes at most the projection of connection id: for an
\* untracked id the whole store is unchanged, and the projections of all other
\* tracked connections are unchanged in every case.
C6_ProcessFrame ==
    last.op = "process" =>
        /\ DOMAIN storage = DOMAIN pre
        /\ \A id \in DOMAIN pre \ {last.id} : storage[id] = pre[id]
        /\ last.id \notin DOMAIN pre => storage = pre

\* process() changed the projection of one of two tracked connections
C6_Witness ==
    /\ Applied
    /\ After # Before
    /\ DOMAIN pre \ {last.id} # {}

\* C7: a sequence of events delivered through the queue of the spawn_processor
\* task of a freshly tracked connection leaves, once the queue is drained, the
\* projection that process() builds from the same sequence one event at a time.
C7_BatchEqualsOneAtATime ==
    \A id \in DOMAIN storage : rx[id] = <<>> => storage[id] = serial[id]

\* the task has drained a queue of two events that changed the projection
C7_Witness ==
    /\ last.op = "processor"
    /\ last.id \in DOMAIN storage
    /\ rx[last.id] = <<>>
    /\ nevents >= 2
    /\ storage[last.id] # pre[last.id]
    /\ pre[last.id] # ConnectionState_new(last.id, "mock")

C8_Case ==
    /\ Applied
    /\ \/ last.event.family = "Channel" /\ last.event.kind = "Join"
       \/ last.event.family = "User" /\ last.event.kind = "ClearList"

\* C8: once Channel::Join{c} or User::ClearList{scope} has been processed,
\* processing the same event again leaves the store as it is.
C8_JoinAndClearListIdempotent ==
    C8_Case =>
        /\ process(storage, last.id, last.event) = storage
        /\ processor_apply(storage, last.id, last.event) = storage

\* the users a User::ClearList is aimed at, before the event
C8_Target ==
    IF ~Scoped THEN Before.global_users
    ELSE IF last.event.channel_id \in DOMAIN Before.channels
         THEN Before.channels[last.event.channel_id].users
         ELSE EmptyMap

\* User::ClearList emptied a user map that held two users
C8_Witness ==
    /\ C8_Case
    /\ last.event.family = "User"
    /\ Cardinality(DOMAIN C8_Target) = 2
    /\ After # Before

C9_Case ==
    /\ Applied
    /\ last.event.family = "Chat"
    /\ last.event.kind = "Remove"
    /\ Scoped

C9_Keep(m) == m.id # last.event.message_id

\* C9: Chat::Remove{Some(c), i} removes from channel c every message whose id
\* is i, keeps the other messages of c in their order and changes nothing else
\* (nothing at all when c is absent); when every message of c has the id i,
\* get_messages(c) is empty afterwards.
C9_RemoveById ==
    C9_Case =>
        LET c == last.event.channel_id IN
        IF c \in DOMAIN Before.channels
        THEN /\ get_messages(storage, last.id, c) =
                    SelectSeq(Before.channels[c].messages, C9_Keep)
             /\ After = [Before EXCEPT !.channels[c].messages = After.channels[c].messages]
             /\ (\A k \in 1..Len(Before.channels[c].messages) :
                    ~C9_Keep(Before.channels[c].messages[k]))
                    => get_messages(storage, last.id, c) = <<>>
        ELSE storage = pre

\* a Remove that took a message out of a channel and left another one in it
C9_Witness ==
    /\ C9_Case
    /\ last.event.channel_id \in DOMAIN Before.channels
    /\ get_messages(storage, last.id, last.event.channel_id) # <<>>
    /\ Len(get_messages(storage, last.id, last.event.channel_id)) <
            Len(Before.channels[last.event.channel_id].messages)

\* the profiles the channels of a connection hold for a user
C10_ChannelProfiles(id, u) ==
    {Some(storage[id].channels[c].users[u]) :
        c \in {x \in DOMAIN storage[id].channels : u \in DOMAIN storage[id].channels[x].users}}

\* C10: get_user searches the channel scope first and the global scope second:
\* a user held by some channel resolves to a channel-scoped profile even when
\* the global map holds another profile for it; a user held by neither, or any
\* user of an untracked connection, resolves to None.
C10_ChannelScopeFirst ==
    \A id \in ConnIds, u \in UserIds :
        IF id \notin DOMAIN storage THEN get_user(storage, id, u) = {Absent}
        ELSE IF C10_ChannelProfiles(id, u) # {}
             THEN get_user(storage, id, u) \subseteq C10_ChannelProfiles(id, u)
             ELSE IF u \in DOMAIN storage[id].global_users
                  THEN get_user(storage, id, u) = {Some(storage[id].global_users[u])}
                  ELSE get_user(storage, id, u) = {Absent}

(***************************************************************************)
(* SockchatConnection (src/src/connection/sockchat.rs): values.            *)
(***************************************************************************)
\* src/src/lib.rs AuthField: the name, the variant of the FieldValue (Text or
\* Password) and the Option<String> it carries
AuthField(name, kind, value) == [name |-> name, kind |-> kind, value |-> value]

AuthUrl == AuthField("sockchat_url", "Text", "ws://chat")

AuthToken == AuthField("token", "Password", "tok")

AuthUid == AuthField("uid", "Text", "u1")

\* the field lists handed to set_auth: complete, complete with an asset API,
\* without the URL, with a token that carries no value, with a uid of the wrong
\* variant, with a URL that does not parse, and with a second, empty URL field
AuthLists ==
    {<<AuthUrl, AuthToken, AuthUid>>,
     <<AuthUrl, AuthToken, AuthUid, AuthField("asset_api", "Text", "http://api/")>>,
     <<AuthToken, AuthUid>>,
     <<AuthUrl, AuthField("token", "Password", None), AuthUid>>,
     <<AuthUrl, AuthToken, AuthField("uid", "Password", "u1")>>,
     <<AuthField("sockchat_url", "Text", "chat"), AuthToken, AuthUid>>,
     <<AuthUrl, AuthField("sockchat_url", "Text", None), AuthToken, AuthUid>>}

\* the complete lists among them
SessionAuthLists ==
    {<<AuthUrl, AuthToken, AuthUid, AuthField("asset_api", "Text", "http://api/")>>}

\* the strings Url::parse accepts, among the ones above
ParsedUrls == {"ws://chat"}

\* what the request to the asset API leaves in the catalog: nothing (the request
\* failed or the reply held no emote) or the emotes of the reply, in its order
Fetches == {<<>>, <<Asset("a1", ":(?:a1):"), Asset("a2", ":(?:a2):")>>}

\* src/src/lib.rs MessageFragment: Text, or another variant (Image)
Text(text) == [type |-> "Text", text |-> text]

Image(url) == [type |-> "Image", text |-> url]

\* ConnectionEvent::Status with its artifact
StatusEvent(kind, artifact) == [family |-> "Status", kind |-> kind, artifact |-> artifact]

\* the events handed to SockchatConnection::send: Chat::New with each shape of
\* content, and one event of every other kind of use here
SendEvents ==
    {[family |-> "Chat", kind |-> "New", channel_id |-> s,
      message |-> [id |-> None, content |-> c]] :
        s \in {None},
        c \in {<<Text("hi")>>, <<>>, <<Image("i.png")>>, <<Image("i.png"), Text("hi")>>}}
    \cup {[family |-> "Chat", kind |-> "New", channel_id |-> "c2",
           message |-> [id |-> None, content |-> <<Text("hi"), Text("more")>>]]}
    \cup {[family |-> "Chat", kind |-> "Remove", channel_id |-> "c1", message_id |-> "m1"],
          [family |-> "Chat", kind |-> "Update", channel_id |-> "c1", message_id |-> "m1",
           new_message |-> [id |-> "m1", content |-> <<Text("hi")>>]],
          [family |-> "Channel", kind |-> "Join", channel_id |-> "c1"],
          [family |-> "User", kind |-> "Identify", user_id |-> "u1"],
          [family |-> "Asset", kind |-> "ClearList", channel_id |-> None],
          StatusEvent("Ping", None)}

\* kanii_lib ServerPacket, as the reader matches it; Undecodable is an inbound
\* item that is a transport error or does not parse as a server packet
Packets ==
    {[type |-> "GoodAuth", user_id |-> "u1", username |-> "alice", channel_name |-> c] :
        c \in ChanIds}
    \cup {[type |-> "BadAuth", reason |-> "authfail", timestamp |-> "7"],
          [type |-> "ChatMessage", user_id |-> "u2", message |-> "x", sequence_id |-> "m1"],
          [type |-> "Undecodable"]}

\* the items the inbound stream of one session yields in SpecPackets: a
\* successful join, a forced channel switch, a context clear with each
\* combination of flags, a chat message, a transport error (Some(Err(_))) and a
\* frame that does not parse as a server packet
SessionPackets ==
    {[type |-> "GoodAuth", user_id |-> "u1", username |-> "alice", channel_name |-> "c1"],
     [type |-> "ChatMessage", user_id |-> "u2", message |-> "x", sequence_id |-> "m1"],
     [type |-> "Error"],
     [type |-> "Undecodable"]}
    \cup {[type |-> "ForcedSwitch", channel_name |-> c] : c \in ChanIds}
    \cup {[type |-> "ContextClearing", message_history |-> m, user_list |-> u,
            channel_list |-> c] : m \in BOOLEAN, u \in BOOLEAN, c \in BOOLEAN}

\* the items of SpecStream: packets of no, one, two, three and six events
StreamPackets ==
    {[type |-> "GoodAuth", user_id |-> "u1", username |-> "alice", channel_name |-> "c1"],
     [type |-> "ChatMessage", user_id |-> "u2", message |-> "x", sequence_id |-> "m1"],
     [type |-> "ForcedSwitch", channel_name |-> "c2"],
     [type |-> "ContextClearing", message_history |-> TRUE, user_list |-> TRUE,
      channel_list |-> TRUE],
     [type |-> "ContextClearing", message_history |-> TRUE, user_list |-> FALSE,
      channel_list |-> TRUE],
     [type |-> "Undecodable"]}

\* frames on the transport, client to server
AuthFrame(token) == [frame |-> "Authentication", arg |-> token, text |-> None]

MessageFrame(uid, text) == [frame |-> "Message", arg |-> uid, text |-> text]

PingFrame(uid) == [frame |-> "Ping", arg |-> uid, text |-> None]

CloseFrame == [frame |-> "Close", arg |-> None, text |-> None]

(***************************************************************************)
(* SockchatConnection: the calls of the Connection interface, each as the  *)
(* connection and the result it leaves.                                    *)
(***************************************************************************)
Returned(conn, result) == [conn |-> conn, result |-> result]

\* Vec::clear()
VecClear_KeepFirst(v) == IF v = <<>> THEN v ELSE <<Head(v)>>

VecClear(v) == <<>>

\* SockchatConnection::set_auth
set_auth(conn, fields) == Returned([conn EXCEPT !.auth = fields], "Ok")

\* a scan that takes a value of either variant
RECURSIVE auth_scan_AnyKind(_, _, _, _)
auth_scan_AnyKind(fields, name, kind, found) ==
    IF fields = <<>> THEN found
    ELSE auth_scan_AnyKind(Tail(fields), name, kind,
                           IF Head(fields).name = name /\ Head(fields).value # None
                           THEN Head(fields).value
                           ELSE found)

\* connect(): the loop over self.auth for one field name; the value of every
\* field with the name, the expected variant and Some(value) is assigned in turn
RECURSIVE auth_scan(_, _, _, _)
auth_scan(fields, name, kind, found) ==
    IF fields = <<>> THEN found
    ELSE auth_scan(Tail(fields), name, kind,
                   IF /\ Head(fields).name = name
                      /\ Head(fields).kind = kind
                      /\ Head(fields).value # None
                   THEN Head(fields).value
                   ELSE found)

\* connect(): the three ok_or()?, Url::parse()? and connect_async()?, in order
connect_result(fields, transport_ok) ==
    IF auth_scan(fields, "sockchat_url", "Text", None) = None THEN "Missing URL field"
    ELSE IF auth_scan(fields, "token", "Password", None) = None THEN "Missing Token field"
    ELSE IF auth_scan(fields, "uid", "Text", None) = None THEN "Missing UID field"
    ELSE IF auth_scan(fields, "sockchat_url", "Text", None) \notin ParsedUrls THEN "Url::parse"
    ELSE IF ~transport_ok THEN "connect_async"
    ELSE "Ok"

\* the session connect() starts: the reader on the inbound half with its cursor,
\* flag and copy of the catalog, the writer on a new receiver of ws_tx, the
\* keepalive on the receiver of the shutdown handle; the authentication frame
\* is the first frame written.  lags, read and fetched are history: the number
\* of lag notifications the writer got, the frames the
\* reader has taken so far, numbered in the order of their arrival on the
\* connection, and what the asset API gave this session.
Session_new(token, uid, catalog, fetched, position) ==
    [reader |-> "parked", packet |-> 0, ptype |-> "None", pending |-> <<>>,
     current_channel |-> None, assets_sent |-> FALSE, channel_assets |-> catalog,
     writer |-> "waiting", rx |-> position, msg_uid |-> uid,
     keepalive |-> "sleeping", shutdown_rx |-> "open", ping_uid |-> uid,
     aborted |-> FALSE, lags |-> 0,
     wire |-> <<AuthFrame(token)>>,
     read |-> <<>>, fetched |-> fetched]

\* a oneshot sender that is dropped: its receiver, if still waiting, sees the
\* channel closed
drop_sender(sessions, tx) ==
    IF tx # NoSender /\ sessions[tx].shutdown_rx = "open"
    THEN [sessions EXCEPT ![tx].shutdown_rx = "closed"]
    ELSE sessions

\* SockchatConnection::connect; fetched is what the asset API request yields,
\* transport_ok whether connect_async succeeds
connect(conn, transport_ok, fetched) ==
    LET result == connect_result(conn.auth, transport_ok)
        token == auth_scan(conn.auth, "token", "Password", None)
        uid == auth_scan(conn.auth, "uid", "Text", None)
        asset_api == auth_scan(conn.auth, "asset_api", "Text", None)
        catalog == conn.assets \o (IF asset_api = None THEN <<>> ELSE fetched)
        s == Len(conn.session) + 1
    IN  IF result # "Ok" THEN Returned(conn, result)
        ELSE Returned(
                [conn EXCEPT
                    !.assets = catalog,
                    !.conn_tasks = @ \o <<<<s, "reader">>, <<s, "writer">>, <<s, "keepalive">>>>,
                    !.shutdown_tx = s,
                    !.session = Append(drop_sender(@, conn.shutdown_tx),
                                       Session_new(token, uid, catalog,
                                                   IF asset_api = None THEN <<>> ELSE fetched,
                                                   Len(conn.ws_tx)))],
                "Ok")

\* JoinHandle::abort() on the three tasks of a session: a task that is parked
\* is cancelled before it runs again, a task that is running goes on until it
\* parks
abort(sess) == [sess EXCEPT !.aborted = TRUE]

\* the sessions the JoinHandles of self.tasks belong to
handles(conn) == {conn.conn_tasks[i][1] : i \in DOMAIN conn.conn_tasks}

\* who published an entry of the event queue
By(task, s, packet, ptype) == [task |-> task, session |-> s, packet |-> packet, type |-> ptype]

\* SockchatConnection::disconnect.  raced: the keepalive task is polled between
\* shutdown_tx.send(()) and its abort(), so that it is running when aborted.
disconnect(conn, raced) ==
    LET signalled ==
            [s \in DOMAIN conn.session |->
                IF s = conn.shutdown_tx /\ conn.session[s].shutdown_rx = "open"
                THEN [conn.session[s] EXCEPT
                        !.shutdown_rx = "sent",
                        !.keepalive = IF raced /\ @ = "sleeping" /\ ~conn.session[s].aborted
                                      THEN "closing" ELSE @]
                ELSE conn.session[s]]
    IN  Returned(
            [conn EXCEPT
                !.shutdown_tx = NoSender,
                !.session = [s \in DOMAIN conn.session |->
                                IF s \in handles(conn) THEN abort(signalled[s])
                                ELSE signalled[s]],
                !.conn_tasks = VecClear(@),
                !.event_tx = Append(@, [event |-> StatusEvent("Disconnected", None),
                                        by |-> By("disconnect", Len(conn.session), 0, "None")])],
            "Ok")

\* the first text fragment of the content, wherever it stands
leading_text_AnyFragment(content) ==
    IF \E i \in DOMAIN content : content[i].type = "Text"
    THEN content[CHOOSE i \in DOMAIN content :
                    /\ content[i].type = "Text"
                    /\ \A j \in 1..(i - 1) : content[j].type # "Text"].text
    ELSE None

\* send(): message.content.first() when it is MessageFragment::Text
leading_text(content) ==
    IF content # <<>> /\ Head(content).type = "Text" THEN Head(content).text ELSE None

\* a queue that counts a receiver for every session ever connected
receivers_EverConnected(conn) == DOMAIN conn.session

\* the receivers of the broadcast queue ws_tx: one per writer task still alive
receivers(conn) == {s \in DOMAIN conn.session : conn.session[s].writer = "waiting"}

\* SockchatConnection::send; broadcast::Sender::send fails, and stores nothing,
\* when the queue has no receiver
send(conn, event) ==
    IF event.family = "Chat" /\ event.kind = "New"
    THEN IF leading_text(event.message.content) = None
         THEN Returned(conn, "Unsupported message format")
         ELSE IF receivers(conn) = {}
              THEN Returned(conn, "channel closed")
              ELSE Returned([conn EXCEPT
                                !.ws_tx = Append(@, leading_text(event.message.content))],
                            "Ok")
    ELSE Returned(conn, "Ok")

\* a subscribe() that hands out a receiver every time
subscribe_Again(conn) == Returned([conn EXCEPT !.event_rx = "None"], "Ok")

\* SockchatConnection::subscribe: self.event_rx.take().expect(..)
subscribe(conn) ==
    IF conn.event_rx = "Some"
    THEN Returned([conn EXCEPT !.event_rx = "None"], "Ok")
    ELSE Returned(conn, "panic")

(***************************************************************************)
(* The reader task: what one inbound packet turns into, arm by arm, on the *)
(* reader's part of the session (current_channel, assets_sent, pending).   *)
(***************************************************************************)
reader_Pong(packet, r) ==
    [r EXCEPT !.pending = <<StatusEvent("Ping", packet.text)>>]

reader_GoodAuth(packet, r) ==
    LET current_channel == packet.channel_name
        send_assets == ~r.assets_sent /\ r.channel_assets # <<>>
    IN  [r EXCEPT
            !.current_channel = current_channel,
            !.pending =
                <<StatusEvent("Connected", None),
                  [family |-> "Channel", kind |-> "New",
                   channel |-> Channel(current_channel, current_channel, "Group")],
                  [family |-> "Channel", kind |-> "Join", channel_id |-> current_channel],
                  [family |-> "Channel", kind |-> "Switch", channel_id |-> current_channel],
                  [family |-> "User", kind |-> "New", channel_id |-> current_channel,
                   user |-> Profile(packet.user_id, packet.username)],
                  [family |-> "User", kind |-> "Identify", user_id |-> packet.user_id]>>
                \o (IF send_assets
                    THEN [i \in DOMAIN r.channel_assets |->
                            [family |-> "Asset", kind |-> "New",
                             channel_id |-> current_channel,
                             asset |-> r.channel_assets[i]]]
                    ELSE <<>>),
            !.assets_sent = @ \/ send_assets]

\* a failed join that is reported with the reason alone
reader_BadAuth_ReasonOnly(packet, r) ==
    [r EXCEPT !.pending = <<StatusEvent("Disconnected", packet.reason)>>]

\* format!("{}: {}", timestamp, reason)
reader_BadAuth(packet, r) ==
    [r EXCEPT !.pending =
        <<StatusEvent("Disconnected", packet.timestamp \o ": " \o packet.reason)>>]

reader_ChatMessage(packet, r) ==
    [r EXCEPT !.pending =
        <<[family |-> "Chat", kind |-> "New", channel_id |-> r.current_channel,
           message |-> Message(packet.sequence_id, packet.message)]>>]

\* a forced switch that publishes the event and leaves the cursor
reader_ForcedSwitch_KeepCursor(packet, r) ==
    [r EXCEPT !.pending =
        <<[family |-> "Channel", kind |-> "Switch", channel_id |-> packet.channel_name]>>]

\* current_channel.replace(channel_name), then Channel::Switch
reader_ForcedSwitch(packet, r) ==
    [r EXCEPT
        !.current_channel = packet.channel_name,
        !.pending =
            <<[family |-> "Channel", kind |-> "Switch", channel_id |-> packet.channel_name]>>]

\* a context clear that stops at its first true flag
reader_ContextClearing_FirstOnly(packet, r) ==
    [r EXCEPT !.pending =
        IF packet.message_history
        THEN <<[family |-> "Channel", kind |-> "Wipe", channel_id |-> r.current_channel]>>
        ELSE IF packet.user_list
             THEN <<[family |-> "User", kind |-> "ClearList",
                     channel_id |-> r.current_channel]>>
             ELSE IF packet.channel_list
                  THEN <<[family |-> "Channel", kind |-> "ClearList"]>>
                  ELSE <<>>]

\* the three ifs of the context clear, in order
reader_ContextClearing(packet, r) ==
    [r EXCEPT !.pending =
        (IF packet.message_history
         THEN <<[family |-> "Channel", kind |-> "Wipe", channel_id |-> r.current_channel]>>
         ELSE <<>>)
        \o (IF packet.user_list
            THEN <<[family |-> "User", kind |-> "ClearList",
                    channel_id |-> r.current_channel]>>
            ELSE <<>>)
        \o (IF packet.channel_list
            THEN <<[family |-> "Channel", kind |-> "ClearList"]>>
            ELSE <<>>)]

\* a reader that stops at an item it cannot use
reader_skip_Stop(packet, r) == [r EXCEPT !.reader = "ended"]

\* the two if let Ok(..) at the head of the loop body: an item that is an
\* error or does not decode falls through to the next read.next().await
reader_skip(packet, r) == r

\* the match of the reader on the decoded packet
reader_translate(packet, r) ==
    CASE packet.type = "Pong" -> reader_Pong(packet, r)
      [] packet.type = "GoodAuth" -> reader_GoodAuth(packet, r)
      [] packet.type = "BadAuth" -> reader_BadAuth(packet, r)
      [] packet.type = "ChatMessage" -> reader_ChatMessage(packet, r)
      [] packet.type = "ForcedSwitch" -> reader_ForcedSwitch(packet, r)
      [] packet.type = "ContextClearing" -> reader_ContextClearing(packet, r)
      [] OTHER -> reader_skip(packet, r)

(***************************************************************************)
(* The SockchatConnection as a state machine: the calls of its owner and   *)
(* the steps of the tasks of its sessions.                                 *)
(***************************************************************************)
Call(op, result, event) == [op |-> op, result |-> result, event |-> event]

\* the connection after a call
Becomes(conn) ==
    /\ auth' = conn.auth
    /\ event_rx' = conn.event_rx
    /\ event_tx' = conn.event_tx
    /\ ws_tx' = conn.ws_tx
    /\ assets' = conn.assets
    /\ conn_tasks' = conn.conn_tasks
    /\ shutdown_tx' = conn.shutdown_tx
    /\ session' = conn.session
    /\ UNCHANGED dropped

\* a step of a task: it changes the session it belongs to and, for the reader,
\* the event queue
TaskStep(s, sess, queue) ==
    /\ session' = [session EXCEPT ![s] = sess]
    /\ event_tx' = queue
    /\ call' = Call("task", "Ok", NoEvent)
    /\ UNCHANGED <<auth, event_rx, ws_tx, assets, conn_tasks, shutdown_tx, dropped,
                   consumers, ncalls>>
    /\ UNCHANGED <<clientvars, received, muxvars, lockvars>>

SetAuth(fields) ==
    /\ Becomes(set_auth(Conn, fields).conn)
    /\ call' = Call("set_auth", set_auth(Conn, fields).result, NoEvent)
    /\ UNCHANGED <<consumers, ncalls, nframes>>
    /\ UNCHANGED <<clientvars, received, muxvars, lockvars>>

Connect(transport_ok, fetched) ==
    /\ Becomes(connect(Conn, transport_ok, fetched).conn)
    /\ call' = Call("connect", connect(Conn, transport_ok, fetched).result, NoEvent)
    /\ ncalls' = ncalls + 1
    /\ UNCHANGED <<consumers, nframes>>
    /\ UNCHANGED <<clientvars, received, muxvars, lockvars>>

Disconnect(raced) ==
    /\ Becomes(disconnect(Conn, raced).conn)
    /\ call' = Call("disconnect", disconnect(Conn, raced).result, NoEvent)
    /\ ncalls' = ncalls + 1
    /\ UNCHANGED <<consumers, nframes>>
    /\ UNCHANGED <<clientvars, received, muxvars, lockvars>>

SendEvent(event) ==
    /\ Becomes(send(Conn, event).conn)
    /\ call' = Call("send", send(Conn, event).result, event)
    /\ ncalls' = ncalls + 1
    /\ UNCHANGED <<consumers, nframes>>
    /\ UNCHANGED <<clientvars, received, muxvars, lockvars>>

Subscribe ==
    /\ Becomes(subscribe(Conn).conn)
    /\ call' = Call("subscribe", subscribe(Conn).result, NoEvent)
    /\ consumers' = IF subscribe(Conn).result = "Ok" THEN consumers + 1 ELSE consumers
    /\ UNCHANGED <<ncalls, nframes>>
    /\ UNCHANGED <<clientvars, received, muxvars, lockvars>>

\* reader: read.next().await yields a frame, to a parked reader that was not
\* aborted or to a running one that is back at the head of its loop
ReaderRecv(s, packet) ==
    /\ \/ session[s].reader = "parked" /\ ~session[s].aborted
       \/ session[s].reader = "running" /\ session[s].pending = <<>>
    /\ TaskStep(s,
                reader_translate(packet,
                    [session[s] EXCEPT !.reader = "running",
                                       !.packet = nframes + 1,
                                       !.ptype = packet.type,
                                       !.read = Append(@, [n |-> nframes + 1,
                                                           packet |-> packet])]),
                event_tx)
    /\ nframes' = nframes + 1

\* reader: one event_tx.send(event) of the packet in hand
ReaderPublish(s) ==
    /\ session[s].reader = "running"
    /\ session[s].pending # <<>>
    /\ TaskStep(s,
                [session[s] EXCEPT !.pending = Tail(@)],
                Append(event_tx, [event |-> Head(session[s].pending),
                                  by |-> By("reader", s, session[s].packet,
                                            session[s].ptype)]))
    /\ UNCHANGED nframes

\* reader: read.next().await has no frame yet, the task parks
ReaderPark(s) ==
    /\ session[s].reader = "running"
    /\ session[s].pending = <<>>
    /\ TaskStep(s, [session[s] EXCEPT !.reader = "parked"], event_tx)
    /\ UNCHANGED nframes

\* reader: read.next().await yields None, the transport is closed; the while
\* let loop ends and the task with it
ReaderEnd(s) ==
    /\ \/ session[s].reader = "parked" /\ ~session[s].aborted
       \/ session[s].reader = "running" /\ session[s].pending = <<>>
    /\ TaskStep(s, [session[s] EXCEPT !.reader = "ended"], event_tx)
    /\ UNCHANGED nframes

\* reader: the aborted task is dropped
ReaderCancel(s) ==
    /\ session[s].reader = "parked"
    /\ session[s].aborted
    /\ TaskStep(s, [session[s] EXCEPT !.reader = "cancelled"], event_tx)
    /\ UNCHANGED nframes

\* the capacity of the broadcast queue behind ws_tx, broadcast::channel(256)
\* in the code: scaled down to one frame, so that a writer that has not run
\* between two send() calls has lagged
WsCapacity == 1

\* a receiver that, having missed frames, waits for the next frame sent
lagged_position_Skip(queue, position) ==
    IF Len(queue) - position > WsCapacity THEN Len(queue) ELSE position

\* broadcast::Receiver::recv() after more than WsCapacity frames were sent
\* since the last one it took: the frames overwritten are missed and the
\* receiver stands before the oldest frame still in the queue
lagged_position(queue, position) ==
    IF Len(queue) - position > WsCapacity THEN Len(queue) - WsCapacity ELSE position

\* writer: rx.recv() yields Err(Lagged(skipped)): a line on stderr, then the
\* next turn of the loop
WriterLagged(s) ==
    /\ session[s].writer = "waiting"
    /\ ~session[s].aborted
    /\ Len(ws_tx) - session[s].rx > WsCapacity
    /\ TaskStep(s,
                [session[s] EXCEPT !.rx = lagged_position(ws_tx, @), !.lags = @ + 1],
                event_tx)
    /\ UNCHANGED nframes

\* writer: rx.recv() yields the next frame of ws_tx, written as a message packet
WriterStep(s) ==
    /\ session[s].writer = "waiting"
    /\ ~session[s].aborted
    /\ session[s].rx < Len(ws_tx)
    /\ Len(ws_tx) - session[s].rx <= WsCapacity
    /\ TaskStep(s,
                [session[s] EXCEPT
                    !.rx = @ + 1,
                    !.wire = Append(@, MessageFrame(session[s].msg_uid,
                                                    ws_tx[session[s].rx + 1]))],
                event_tx)
    /\ UNCHANGED nframes

\* writer: rx.recv() yields Err(Closed), the loop breaks: every sender of
\* ws_tx is gone and the receiver has taken every frame left
WriterClosed(s) ==
    /\ session[s].writer = "waiting"
    /\ ~session[s].aborted
    /\ dropped
    /\ session[s].rx = Len(ws_tx)
    /\ TaskStep(s, [session[s] EXCEPT !.writer = "ended"], event_tx)
    /\ UNCHANGED nframes

\* the owner drops the SockchatConnection: the senders of ws_tx and of the
\* shutdown signal go with it, the tasks are detached and keep running
DropConnection ==
    /\ ~dropped
    /\ dropped' = TRUE
    /\ session' = drop_sender(session, shutdown_tx)
    /\ shutdown_tx' = NoSender
    /\ call' = Call("drop", "Ok", NoEvent)
    /\ UNCHANGED <<auth, event_rx, event_tx, ws_tx, assets, conn_tasks, consumers, ncalls,
                   nframes>>
    /\ UNCHANGED <<clientvars, received, muxvars, lockvars>>

\* writer: the aborted task is dropped, and its receiver of ws_tx with it
WriterCancel(s) ==
    /\ session[s].writer = "waiting"
    /\ session[s].aborted
    /\ TaskStep(s, [session[s] EXCEPT !.writer = "cancelled"], event_tx)
    /\ UNCHANGED nframes

\* keepalive: the sleep of 40 seconds elapses, a ping is written
KeepalivePing(s) ==
    /\ session[s].keepalive = "sleeping"
    /\ ~session[s].aborted
    /\ TaskStep(s,
                [session[s] EXCEPT !.wire = Append(@, PingFrame(session[s].ping_uid))],
                event_tx)
    /\ nframes' = nframes + 1

\* keepalive: shutdown_rx resolves (a signal, or the sender was dropped)
KeepaliveWake(s) ==
    /\ session[s].keepalive = "sleeping"
    /\ ~session[s].aborted
    /\ session[s].shutdown_rx \in {"sent", "closed"}
    /\ TaskStep(s, [session[s] EXCEPT !.keepalive = "closing"], event_tx)
    /\ UNCHANGED nframes

\* keepalive: write.lock().await.send(WsMessage::Close(None)).await, then break
KeepaliveClose(s) ==
    /\ session[s].keepalive = "closing"
    /\ TaskStep(s,
                [session[s] EXCEPT !.keepalive = "done", !.wire = Append(@, CloseFrame)],
                event_tx)
    /\ UNCHANGED nframes

\* keepalive: the aborted task is dropped at the select or at an await of the
\* shutdown branch
KeepaliveCancel(s) ==
    /\ session[s].keepalive \in {"sleeping", "closing"}
    /\ session[s].aborted
    /\ TaskStep(s, [session[s] EXCEPT !.keepalive = "cancelled"], event_tx)
    /\ UNCHANGED nframes

\* a receiver that yields the newest entry of the queue
UnboundedReceiver_recv_Latest(queue, taken) == queue[Len(queue)]

\* UnboundedReceiver::recv(): the oldest entry of the queue not yet taken
UnboundedReceiver_recv(queue, taken) == queue[Len(taken) + 1]

\* the subscriber takes the next event from the receiver subscribe() gave it
SubscriberRecv ==
    /\ event_rx = "None"
    /\ Len(received) < Len(event_tx)
    /\ received' = Append(received, UnboundedReceiver_recv(event_tx, received))
    /\ call' = Call("recv", "Ok", NoEvent)
    /\ UNCHANGED <<auth, event_rx, event_tx, ws_tx, assets, conn_tasks, shutdown_tx,
                   session, dropped, consumers, ncalls, nframes>>
    /\ UNCHANGED <<clientvars, muxvars, lockvars>>

(***************************************************************************)
(* SpecAuth: the owner of one SockchatConnection sets every list of auth   *)
(* fields and calls connect(), disconnect() and subscribe().               *)
(***************************************************************************)
NextAuth ==
    \/ \E fields \in AuthLists : SetAuth(fields)
    \/ \E transport_ok \in BOOLEAN, fetched \in Fetches :
            ncalls < MaxCalls /\ Connect(transport_ok, fetched)
    \/ \E raced \in BOOLEAN : ncalls < MaxCalls /\ Disconnect(raced)
    \/ Subscribe

SpecAuth == Init /\ [][NextAuth]_vars

(***************************************************************************)
(* SpecSession: one SockchatConnection with complete auth fields, every    *)
(* call of its owner and the writer and keepalive tasks of its sessions;   *)
(* the server sends nothing, so the readers stay parked, and the asset API *)
(* has no emote.                                                           *)
(***************************************************************************)
NextSession ==
    \/ \E fields \in SessionAuthLists : auth = <<>> /\ SetAuth(fields)
    \/ \E transport_ok \in BOOLEAN : ncalls < MaxCalls /\ Connect(transport_ok, <<>>)
    \/ \E raced \in BOOLEAN : ncalls < MaxCalls /\ Disconnect(raced)
    \/ \E event \in SendEvents : ncalls < MaxCalls /\ SendEvent(event)
    \/ Subscribe
    \/ \E s \in DOMAIN session : ReaderCancel(s)
    \/ \E s \in DOMAIN session : WriterStep(s)
    \/ \E s \in DOMAIN session : WriterLagged(s)
    \/ \E s \in DOMAIN session : WriterCancel(s)
    \/ \E s \in DOMAIN session : nframes < MaxPings /\ KeepalivePing(s)
    \/ \E s \in DOMAIN session : KeepaliveWake(s)
    \/ \E s \in DOMAIN session : KeepaliveClose(s)
    \/ \E s \in DOMAIN session : KeepaliveCancel(s)

SpecSession == Init /\ [][NextSession]_vars

(***************************************************************************)
(* SpecReader: one SockchatConnection with complete auth fields, its       *)
(* connect() and disconnect() and the reader tasks of its sessions on the  *)
(* frames the server sends.                                                *)
(***************************************************************************)
NextReader ==
    \/ \E fields \in SessionAuthLists : auth = <<>> /\ SetAuth(fields)
    \/ \E transport_ok \in BOOLEAN, fetched \in Fetches :
            ncalls < MaxSessionCalls /\ Connect(transport_ok, fetched)
    \/ ncalls < MaxSessionCalls /\ Disconnect(FALSE)
    \/ \E s \in DOMAIN session, packet \in Packets :
            /\ nframes < MaxFrames
            /\ \A t \in DOMAIN session : session[t].pending = <<>>
            /\ ReaderRecv(s, packet)
    \/ \E s \in DOMAIN session : ReaderPublish(s)
    \/ \E s \in DOMAIN session : ReaderPark(s)
    \/ \E s \in DOMAIN session : ReaderCancel(s)

SpecReader == Init /\ [][NextReader]_vars

(***************************************************************************)
(* SpecPackets: one session of a SockchatConnection: its reader on every   *)
(* kind of inbound item and on the end of the stream, and a disconnect().  *)
(***************************************************************************)
NextPackets ==
    \/ \E fields \in SessionAuthLists : auth = <<>> /\ SetAuth(fields)
    \/ \E transport_ok \in BOOLEAN :
            session = <<>> /\ ncalls < MaxSessionCalls /\ Connect(transport_ok, <<>>)
    \/ shutdown_tx # NoSender /\ Disconnect(FALSE)
    \/ \E s \in DOMAIN session, packet \in SessionPackets :
            nframes < MaxPackets /\ ReaderRecv(s, packet)
    \/ \E s \in DOMAIN session : ReaderPublish(s)
    \/ \E s \in DOMAIN session : ReaderPark(s)
    \/ \E s \in DOMAIN session : ReaderEnd(s)
    \/ \E s \in DOMAIN session : ReaderCancel(s)

SpecPackets == Init /\ [][NextPackets]_vars

\* the runtime polls every task that can make a step, again and again
PacketsFairness ==
    /\ \A s \in 1..1 : WF_vars(s \in DOMAIN session /\ ReaderPublish(s))
    /\ \A s \in 1..1 : WF_vars(s \in DOMAIN session /\ ReaderPark(s))
    /\ \A s \in 1..1 : WF_vars(s \in DOMAIN session /\ ReaderCancel(s))

SpecPacketsLive == SpecPackets /\ PacketsFairness

(***************************************************************************)
(* SpecStream: one session of a SockchatConnection, its reader, a          *)
(* disconnect(), and the subscriber taking the events at its own pace.     *)
(***************************************************************************)
NextStream ==
    \/ \E fields \in SessionAuthLists : auth = <<>> /\ SetAuth(fields)
    \/ session = <<>> /\ ncalls < MaxSessionCalls /\ Connect(TRUE, <<>>)
    \/ shutdown_tx # NoSender /\ Disconnect(FALSE)
    \/ event_rx = "Some" /\ Subscribe
    \/ \E s \in DOMAIN session, packet \in StreamPackets :
            nframes < MaxFrames /\ ReaderRecv(s, packet)
    \/ \E s \in DOMAIN session : ReaderPublish(s)
    \/ \E s \in DOMAIN session : ReaderPark(s)
    \/ \E s \in DOMAIN session : ReaderCancel(s)
    \/ SubscriberRecv

SpecStream == Init /\ [][NextStream]_vars

(***************************************************************************)
(* Properties of the SockchatConnection.                                   *)
(***************************************************************************)
\* the events the reader has published for the frame numbered n, in the order
\* of the event queue
PacketEvents(n) ==
    LET published == SelectSeq(event_tx,
                               LAMBDA e : e.by.task = "reader" /\ e.by.packet = n)
    IN  [i \in DOMAIN published |-> published[i].event]

\* the reader of session s has published every event of the frame numbered n
PacketDone(s, n) == ~(session[s].packet = n /\ session[s].pending # <<>>)

IsPrefix(a, b) == Len(a) <= Len(b) /\ a = SubSeq(b, 1, Len(a))

\* C11: the first subscribe() on a connection hands out the consumer of the
\* event queue, every later subscribe() panics and hands out nothing, in every
\* state of the session; no second consumer ever exists.
C11_SingleConsumer ==
    /\ [](consumers <= 1 /\ (event_rx = "Some" <=> consumers = 0))
    /\ [][call'.op = "subscribe" =>
            /\ event_rx' = "None"
            /\ IF consumers = 0
               THEN call'.result = "Ok" /\ consumers' = 1
               ELSE call'.result = "panic" /\ consumers' = consumers]_vars

\* a second subscribe() panicked on a connection that was connected and then
\* disconnected
C11_Witness ==
    /\ call.op = "subscribe"
    /\ call.result = "panic"
    /\ session # <<>>
    /\ conn_tasks = <<>>
    /\ consumers = 1

\* no field of the list has the name, the expected variant and a value
C12_Missing(fields, name, kind) ==
    ~\E i \in DOMAIN fields :
        fields[i].name = name /\ fields[i].kind = kind /\ fields[i].value # None

C12_Case ==
    \/ C12_Missing(auth, "sockchat_url", "Text")
    \/ C12_Missing(auth, "token", "Password")
    \/ C12_Missing(auth, "uid", "Text")

\* C12: connect() with sockchat_url, token or uid missing (not in the list,
\* without a value, or of the wrong variant) returns the error of the first
\* missing field and leaves the connection as it was: no session (transport,
\* tasks), no fetched asset, no event, the same task handles and shutdown handle.
C12_MissingFieldFailsFast ==
    [][(call'.op = "connect" /\ C12_Case) =>
            /\ call'.result =
                    IF C12_Missing(auth, "sockchat_url", "Text") THEN "Missing URL field"
                    ELSE IF C12_Missing(auth, "token", "Password") THEN "Missing Token field"
                    ELSE "Missing UID field"
            /\ Conn' = Conn]_vars

\* connect() refused a uid of the wrong variant on a connection with a live
\* session
C12_Witness ==
    /\ call.op = "connect"
    /\ call.result = "Missing UID field"
    /\ conn_tasks # <<>>
    /\ shutdown_tx # NoSender

\* C13: connect() publishes no event; Status::Connected is only ever published
\* by a reader for a successful-join packet; for a failed-join packet the reader
\* publishes exactly one event, Status::Disconnected with the artifact
\* "{timestamp}: {reason}".
C13_AuthOutcomeByEvents ==
    /\ [](\A i \in DOMAIN event_tx :
            (event_tx[i].event.family = "Status" /\ event_tx[i].event.kind = "Connected")
                => (event_tx[i].by.task = "reader" /\ event_tx[i].by.type = "GoodAuth"))
    /\ [](\A s \in DOMAIN session : \A k \in DOMAIN session[s].read :
            session[s].read[k].packet.type = "BadAuth" =>
                PacketEvents(session[s].read[k].n) =
                    IF PacketDone(s, session[s].read[k].n)
                    THEN <<StatusEvent("Disconnected", "7: authfail")>>
                    ELSE <<>>)
    /\ [][call'.op = "connect" => event_tx' = event_tx]_vars

\* after a connect() that returned Ok, the reader has reported a failed join
C13_Witness ==
    \E i \in DOMAIN event_tx :
        /\ event_tx[i].by.type = "BadAuth"
        /\ event_tx[i].event.kind = "Disconnected"
        /\ \A j \in DOMAIN event_tx : event_tx[j].event.kind # "Connected"

\* the six events of a successful join, for the packet
C14_Join(packet) ==
    <<StatusEvent("Connected", None),
      [family |-> "Channel", kind |-> "New",
       channel |-> Channel(packet.channel_name, packet.channel_name, "Group")],
      [family |-> "Channel", kind |-> "Join", channel_id |-> packet.channel_name],
      [family |-> "Channel", kind |-> "Switch", channel_id |-> packet.channel_name],
      [family |-> "User", kind |-> "New", channel_id |-> packet.channel_name,
       user |-> Profile(packet.user_id, packet.username)],
      [family |-> "User", kind |-> "Identify", user_id |-> packet.user_id]>>

\* Asset::New for every asset of a catalog, in its order
C14_Assets(packet, catalog) ==
    [i \in DOMAIN catalog |->
        [family |-> "Asset", kind |-> "New", channel_id |-> packet.channel_name,
         asset |-> catalog[i]]]

\* the join sequence, given the catalog of each session: for every
\* successful-join packet a reader has taken, the events it has published for it
\* are the six events, followed for the first such packet of the session by
\* Asset::New for the catalog; and the events of one packet are contiguous among
\* the events of that reader
C14_Sequence(catalogs) ==
    /\ \A s \in DOMAIN session : \A k \in DOMAIN session[s].read :
        LET packet == session[s].read[k].packet
            n == session[s].read[k].n
            first == \A j \in 1..(k - 1) : session[s].read[j].packet.type # "GoodAuth"
            expected == C14_Join(packet)
                        \o (IF first THEN C14_Assets(packet, catalogs[s]) ELSE <<>>)
        IN  packet.type = "GoodAuth" =>
                IF PacketDone(s, n) THEN PacketEvents(n) = expected
                ELSE IsPrefix(PacketEvents(n), expected)
    /\ \A s \in DOMAIN session :
        LET stream == SelectSeq(event_tx,
                                LAMBDA e : e.by.task = "reader" /\ e.by.session = s)
        IN  \A i, j \in DOMAIN stream : i <= j => stream[i].by.packet <= stream[j].by.packet

\* the join sequence with the catalog the connection holds when the session
\* starts (self.assets, which connect() only ever appends to)
C14_ConnectionCatalog ==
    C14_Sequence([s \in DOMAIN session |-> session[s].channel_assets])

\* C14: for each successful-join packet the reader publishes, contiguously and
\* in order, Connected, Channel::New, Channel::Join, Channel::Switch, User::New
\* scoped to the joined channel and User::Identify; Asset::New for the catalog
\* the session fetched, one per asset in catalog order, follows the first
\* successful join of the session only.
C14_JoinThenCatalogOnce ==
    C14_Sequence([s \in DOMAIN session |-> session[s].fetched])

ChatNew(event) == event.family = "Chat" /\ event.kind = "New"

TextFirst(event) ==
    event.message.content # <<>> /\ event.message.content[1].type = "Text"

\* the outbound queue has a receiver: a writer task that was not dropped
C15_WriterLive == \E s \in DOMAIN session : session[s].writer = "waiting"

\* send() changed nothing but, where stated, the outbound queue
C15_SessionContinues == [Conn EXCEPT !.ws_tx = <<>>]' = [Conn EXCEPT !.ws_tx = <<>>]

\* C15 as stated: send(Chat::New) with a leading text fragment enqueues exactly
\* one frame, the text of that fragment; with empty content or another leading
\* fragment it returns the unsupported-format error and enqueues nothing.
C15_Original ==
    [][(call'.op = "send" /\ ChatNew(call'.event)) =>
            /\ C15_SessionContinues
            /\ IF TextFirst(call'.event)
               THEN /\ call'.result = "Ok"
                    /\ ws_tx' = Append(ws_tx, call'.event.message.content[1].text)
               ELSE /\ call'.result = "Unsupported message format"
                    /\ ws_tx' = ws_tx]_vars

\* C15, amended: the frame is enqueued while the outbound queue has a live
\* receiver (the writer task of a session); without one, send() returns the
\* error of the queue and enqueues nothing.  The rest is as stated.
C15_SendRelaysFirstText ==
    [][(call'.op = "send" /\ ChatNew(call'.event)) =>
            /\ C15_SessionContinues
            /\ IF ~TextFirst(call'.event)
               THEN /\ call'.result = "Unsupported message format"
                    /\ ws_tx' = ws_tx
               ELSE IF C15_WriterLive
                    THEN /\ call'.result = "Ok"
                         /\ ws_tx' = Append(ws_tx, call'.event.message.content[1].text)
                    ELSE /\ call'.result \notin {"Ok", "Unsupported message format"}
                         /\ ws_tx' = ws_tx]_vars

\* a message of two text fragments, scoped to a channel, was sent on a live
\* session: one frame is queued
C15_Witness ==
    /\ call.op = "send"
    /\ call.result = "Ok"
    /\ ChatNew(call.event)
    /\ call.event.channel_id = "c2"
    /\ Len(call.event.message.content) = 2
    /\ ws_tx = <<"hi">>

\* C16: send() of an event that is not Chat::New returns the unsupported-format
\* error and enqueues no frame.
C16_OtherEventsRejected ==
    [][(call'.op = "send" /\ ~ChatNew(call'.event)) =>
            /\ call'.result = "Unsupported message format"
            /\ ws_tx' = ws_tx]_vars

\* C17: once disconnect() has published its Status::Disconnected, no event of a
\* reader of a session that disconnect() ended is put on the event queue.
C17_DisconnectedIsFinal ==
    \A i, j \in DOMAIN event_tx :
        (i < j /\ event_tx[i].by.task = "disconnect" /\ event_tx[j].by.task = "reader")
            => event_tx[j].by.session > event_tx[i].by.session

\* C18: after disconnect() has sent the cancellation signal to the keepalive
\* task of a session, the task does not terminate without having written a
\* close frame to the transport.
C18_CloseFrameWritten ==
    \A s \in DOMAIN session :
        (session[s].shutdown_rx = "sent" /\ session[s].keepalive \in {"done", "cancelled"})
            => \E i \in DOMAIN session[s].wire : session[s].wire[i] = CloseFrame

\* C19: disconnect() returns Ok in every state of the session (never connected,
\* after a failed connect(), connected, already disconnected) and leaves the
\* connection with no task handle and no shutdown handle.
C19_DisconnectAlwaysSafe ==
    call.op = "disconnect" =>
        /\ call.result = "Ok"
        /\ conn_tasks = <<>>
        /\ shutdown_tx = NoSender

\* disconnect() returned on a connection whose two sessions it has aborted
C19_Witness ==
    /\ call.op = "disconnect"
    /\ Len(session) = 2
    /\ \A s \in DOMAIN session : session[s].aborted
    /\ session[2].shutdown_rx = "sent"

\* C20: a second disconnect() right after a disconnect() leaves the connection
\* and the event queue as the first one left them.
C20_DisconnectTwice ==
    call.op = "disconnect" => disconnect(Conn, FALSE).conn = Conn

(***************************************************************************)
(* StateClient of src/src/client.rs: values.                               *)
(***************************************************************************)
AccountIds == {"A1", "A2"}

\* the capacity of the broadcast queue a Connection publishes its events on
Capacity == 1

\* the events a connection publishes and the owner sends, one of each family
\* and both kinds of scope
ClientEvents ==
    {[family |-> "Chat", kind |-> "New", channel_id |-> None, message |-> Message("m1", "x")],
     [family |-> "Chat", kind |-> "New", channel_id |-> None, message |-> Message("m2", "x")],
     [family |-> "Chat", kind |-> "New", channel_id |-> "c1", message |-> Message("m1", "x")],
     [family |-> "User", kind |-> "New", channel_id |-> "c1", user |-> Profile("u1", "alice")],
     [family |-> "Asset", kind |-> "New", channel_id |-> None, asset |-> Asset("a1", "p")],
     [family |-> "Channel", kind |-> "Join", channel_id |-> "c2"],
     [family |-> "Status", kind |-> "Connected"]}

\* SelectedContext
SelectedContext(account, connection, channel_id) ==
    [account |-> account, connection |-> connection, channel_id |-> channel_id]

SelectedContexts ==
    {SelectedContext(a, c, s) : a \in AccountIds, c \in ConnIds, s \in {None, "c1"}}

\* ChannelState::default() of client.rs
ChannelState_default == [chat_history |-> <<>>, user_list |-> <<>>, asset_list |-> <<>>]

\* the AccountClient add_account builds
AccountClient_new ==
    [connections |-> {}, channel_states |-> EmptyMap, inbound_rxs |-> {},
     selected_connection |-> None]

\* a Connection object as add_connection receives it, and its two calls
Connection_new == [sent |-> <<>>, disconnects |-> 0, dropped |-> FALSE]

Connection_send(c, event) == [c EXCEPT !.sent = Append(@, event)]

Connection_disconnect(c) == [c EXCEPT !.disconnects = @ + 1]

\* the broadcast receiver of a folding task and the task around it; sent and
\* got are history: the events published on the queue and the events recv()
\* has yielded
Fold_new(acc_id) ==
    [account |-> acc_id, queue |-> <<>>, missed |-> 0, state |-> "running", got |-> <<>>,
     sent |-> <<>>]

\* the fields of the StateClient and the objects it reaches, as one record
Client ==
    [accounts |-> accounts, selected |-> selected, conns |-> conns, folds |-> folds,
     made |-> made]

(***************************************************************************)
(* StateClient of src/src/client.rs: the calls.                            *)
(***************************************************************************)
\* a lookup of the connection in every account
send_target_AnyAccount(cl, sel) ==
    IF \E a \in DOMAIN cl.accounts : sel.connection \in cl.accounts[a].connections
    THEN "Ok"
    ELSE "connection not found"

\* send(): the two lookups behind the selected context
send_target(cl, sel) ==
    IF sel.account \notin DOMAIN cl.accounts THEN "account not found"
    ELSE IF sel.connection \notin cl.accounts[sel.account].connections
         THEN "connection not found"
         ELSE "Ok"

\* StateClient::send
client_send(cl, event) ==
    IF cl.selected = <<>> THEN Returned(cl, "no active context")
    ELSE LET sel == cl.selected[1] IN
         IF send_target(cl, sel) # "Ok" THEN Returned(cl, send_target(cl, sel))
         ELSE Returned([cl EXCEPT !.conns[sel.connection] = Connection_send(@, event)], "Ok")

\* StateClient::add_account
add_account(cl) ==
    LET id == CHOOSE a \in AccountIds \ cl.made : TRUE
    IN  Returned([cl EXCEPT !.accounts = MapInsert(@, id, AccountClient_new),
                            !.made = @ \cup {id}],
                 id)

\* a loop that drops the connections without a call
disconnect_each_DropOnly(cs, owned) ==
    [c \in DOMAIN cs |-> IF c \in owned THEN [cs[c] EXCEPT !.dropped = TRUE] ELSE cs[c]]

\* remove_account(): the loop over the connections of the removed account, each
\* disconnected and then dropped with the AccountClient
disconnect_each(cs, owned) ==
    [c \in DOMAIN cs |->
        IF c \in owned
        THEN [Connection_disconnect(cs[c]) EXCEPT !.dropped = TRUE]
        ELSE cs[c]]

\* a remove_account that also resets a cursor that names the removed account
remove_account_ClearCursor(cl, acc_id) ==
    IF acc_id \in DOMAIN cl.accounts
    THEN Returned([cl EXCEPT
                    !.accounts = MapRemove(@, acc_id),
                    !.conns = disconnect_each(@, cl.accounts[acc_id].connections),
                    !.selected = IF @ # <<>> /\ @[1].account = acc_id THEN <<>> ELSE @],
                  "Ok")
    ELSE Returned(cl, "Ok")

\* StateClient::remove_account
remove_account(cl, acc_id) ==
    IF acc_id \in DOMAIN cl.accounts
    THEN Returned([cl EXCEPT
                    !.accounts = MapRemove(@, acc_id),
                    !.conns = disconnect_each(@, cl.accounts[acc_id].connections)],
                  "Ok")
    ELSE Returned(cl, "Ok")

\* an add_connection that leaves the aggregate map of the connection to the
\* first event folded
add_connection_NoAggregate(cl, acc_id) ==
    IF acc_id \notin DOMAIN cl.accounts THEN Returned(cl, None)
    ELSE LET cid == CHOOSE c \in ConnIds \ cl.made : TRUE IN
         Returned([cl EXCEPT
                    !.accounts[acc_id] =
                        [@ EXCEPT !.inbound_rxs = @ \cup {cid},
                                  !.connections = @ \cup {cid},
                                  !.selected_connection = cid],
                    !.conns = MapInsert(@, cid, Connection_new),
                    !.folds = MapInsert(@, cid, Fold_new(acc_id)),
                    !.made = @ \cup {cid}],
                  cid)

\* StateClient::add_connection
add_connection(cl, acc_id) ==
    IF acc_id \notin DOMAIN cl.accounts THEN Returned(cl, None)
    ELSE LET cid == CHOOSE c \in ConnIds \ cl.made : TRUE IN
         Returned([cl EXCEPT
                    !.accounts[acc_id] =
                        [@ EXCEPT !.channel_states = MapInsert(@, cid, EmptyMap),
                                  !.inbound_rxs = @ \cup {cid},
                                  !.connections = @ \cup {cid},
                                  !.selected_connection = cid],
                    !.conns = MapInsert(@, cid, Connection_new),
                    !.folds = MapInsert(@, cid, Fold_new(acc_id)),
                    !.made = @ \cup {cid}],
                  cid)

\* StateClient::select
select(cl, ctx) == Returned([cl EXCEPT !.selected = <<ctx>>], "Ok")

\* StateClient::current_state
current_state(cl) ==
    IF cl.selected = <<>> THEN <<>>
    ELSE LET sel == cl.selected[1] IN
         IF sel.account \notin DOMAIN cl.accounts THEN <<>>
         ELSE IF sel.connection \notin DOMAIN cl.accounts[sel.account].channel_states
              THEN <<>>
              ELSE LET map == cl.accounts[sel.account].channel_states[sel.connection] IN
                   IF sel.channel_id \in DOMAIN map THEN <<map[sel.channel_id]>> ELSE <<>>

\* StateClient::list_accounts
list_accounts(cl) == DOMAIN cl.accounts

\* StateClient::list_connections of client.rs
client_list_connections(cl, acc_id) ==
    IF acc_id \in DOMAIN cl.accounts THEN <<cl.accounts[acc_id].connections>> ELSE <<>>

\* StateClient::list_channels
list_channels(cl, acc_id, conn_id) ==
    IF acc_id \notin DOMAIN cl.accounts THEN <<>>
    ELSE IF conn_id \notin DOMAIN cl.accounts[acc_id].channel_states THEN <<>>
         ELSE <<DOMAIN cl.accounts[acc_id].channel_states[conn_id]>>

(***************************************************************************)
(* The folding task of add_connection.                                     *)
(***************************************************************************)
\* a key that ignores the scope of the event
fold_key_Global(event) == None

\* the key of the aggregate an event goes to
fold_key(event) ==
    CASE event.family \in {"Chat", "User", "Asset"} -> event.channel_id
      [] event.family = "Channel" /\ event.kind = "New" -> event.channel.id
      [] event.family = "Channel" /\ event.kind = "ClearList" -> None
      [] event.family = "Channel" -> event.channel_id
      [] OTHER -> None

\* the body of the loop on Ok(event), on the AccountClient of the task
fold_apply(ac, cid, event) ==
    LET key == fold_key(event)
        state_map == ac.channel_states[cid]
        ch_state == IF key \in DOMAIN state_map THEN state_map[key] ELSE ChannelState_default
        folded ==
            CASE event.family = "Chat" ->
                    [ch_state EXCEPT !.chat_history = Append(@, event)]
              [] event.family = "User" ->
                    [ch_state EXCEPT !.user_list = Append(@, event)]
              [] event.family = "Asset" ->
                    [ch_state EXCEPT !.asset_list = Append(@, event)]
              [] OTHER -> ch_state
    IN  [ac EXCEPT !.channel_states[cid] = MapInsert(state_map, key, folded)]

\* broadcast::Sender::send as one receiver sees it: at capacity the oldest
\* value is overwritten and the receiver has missed it
broadcast_send(f, event) ==
    IF Len(f.queue) = Capacity
    THEN [f EXCEPT !.queue = Append(Tail(@), event), !.missed = @ + 1,
                   !.sent = Append(@, event)]
    ELSE [f EXCEPT !.queue = Append(@, event), !.sent = Append(@, event)]

(***************************************************************************)
(* The StateClient of client.rs as a state machine.                        *)
(***************************************************************************)
\* the client after a call
ClientBecomes(cl) ==
    /\ accounts' = cl.accounts
    /\ selected' = cl.selected
    /\ conns' = cl.conns
    /\ folds' = cl.folds
    /\ made' = cl.made

AddAccount ==
    /\ AccountIds \ made # {}
    /\ ClientBecomes(add_account(Client).conn)
    /\ did' = Did("add_account", add_account(Client).result, None, "Ok", NoEvent)
    /\ UNCHANGED nsent
    /\ UNCHANGED <<clientvars, sockvars, received, lockvars>>

RemoveAccount(acc_id) ==
    /\ ClientBecomes(remove_account(Client, acc_id).conn)
    /\ did' = Did("remove_account", acc_id, None, "Ok", NoEvent)
    /\ UNCHANGED nsent
    /\ UNCHANGED <<clientvars, sockvars, received, lockvars>>

AddConnection(acc_id) ==
    /\ ConnIds \ made # {}
    /\ ClientBecomes(add_connection(Client, acc_id).conn)
    /\ did' = Did("add_connection", acc_id, add_connection(Client, acc_id).result,
                  "Ok", NoEvent)
    /\ UNCHANGED nsent
    /\ UNCHANGED <<clientvars, sockvars, received, lockvars>>

Select(ctx) ==
    /\ ClientBecomes(select(Client, ctx).conn)
    /\ did' = Did("select", ctx.account, ctx.connection, "Ok", NoEvent)
    /\ UNCHANGED nsent
    /\ UNCHANGED <<clientvars, sockvars, received, lockvars>>

ClientSend(event) ==
    /\ ClientBecomes(client_send(Client, event).conn)
    /\ did' = Did("send", None, None, client_send(Client, event).result, event)
    /\ nsent' = nsent + 1
    /\ UNCHANGED <<clientvars, sockvars, received, lockvars>>

\* a connection that was not dropped publishes an event on its stream
Publish(cid, event) ==
    /\ cid \in DOMAIN conns
    /\ ~conns[cid].dropped
    /\ folds' = [folds EXCEPT ![cid] = broadcast_send(@, event)]
    /\ did' = Did("publish", None, cid, "Ok", event)
    /\ nsent' = nsent + 1
    /\ UNCHANGED <<accounts, selected, conns, made>>
    /\ UNCHANGED <<clientvars, sockvars, received, lockvars>>

\* folding task: rx.recv() yields Err(Lagged), the loop continues
FoldLagged(cid) ==
    /\ cid \in DOMAIN folds
    /\ folds[cid].state = "running"
    /\ folds[cid].missed > 0
    /\ folds' = [folds EXCEPT ![cid].missed = 0]
    /\ did' = Did("fold", folds[cid].account, cid, "Lagged", NoEvent)
    /\ UNCHANGED <<accounts, selected, conns, made, nsent>>
    /\ UNCHANGED <<clientvars, sockvars, received, lockvars>>

\* folding task: rx.recv() yields Ok(event), folded in under the write lock
\* when the account is still there; the unwrap() of the lookup of the
\* aggregate map of the connection panics, and ends the task, when the
\* account has no such map
FoldStep(cid) ==
    /\ cid \in DOMAIN folds
    /\ folds[cid].state = "running"
    /\ folds[cid].missed = 0
    /\ folds[cid].queue # <<>>
    /\ LET event == Head(folds[cid].queue)
           acc_id == folds[cid].account
           found == acc_id \in DOMAIN accounts
           unwrapped == found /\ cid \in DOMAIN accounts[acc_id].channel_states
       IN  /\ accounts' = IF unwrapped
                          THEN [accounts EXCEPT ![acc_id] = fold_apply(@, cid, event)]
                          ELSE accounts
           /\ folds' = [folds EXCEPT
                            ![cid].queue = Tail(@),
                            ![cid].got = Append(@, event),
                            ![cid].state = IF found /\ ~unwrapped THEN "panicked" ELSE @]
           /\ did' = Did("fold", acc_id, cid, "Ok", event)
    /\ UNCHANGED <<selected, conns, made, nsent>>
    /\ UNCHANGED <<clientvars, sockvars, received, lockvars>>

\* folding task: rx.recv() yields Err(Closed) once the connection was dropped
\* and the queue is drained, the loop breaks
FoldClosed(cid) ==
    /\ cid \in DOMAIN folds
    /\ folds[cid].state = "running"
    /\ folds[cid].missed = 0
    /\ folds[cid].queue = <<>>
    /\ conns[cid].dropped
    /\ folds' = [folds EXCEPT ![cid].state = "ended"]
    /\ did' = Did("fold", folds[cid].account, cid, "Closed", NoEvent)
    /\ UNCHANGED <<accounts, selected, conns, made, nsent>>
    /\ UNCHANGED <<clientvars, sockvars, received, lockvars>>

(***************************************************************************)
(* SpecClient: every call of the StateClient of client.rs on two accounts  *)
(* and two connections; the connections publish nothing, the selected      *)
(* context has no channel and the events sent are chat and status events.  *)
(***************************************************************************)
NextClient ==
    \/ AddAccount
    \/ \E acc_id \in AccountIds : RemoveAccount(acc_id)
    \/ \E acc_id \in AccountIds : AddConnection(acc_id)
    \/ \E ctx \in SelectedContexts : ctx.channel_id = None /\ Select(ctx)
    \/ \E event \in ClientEvents :
            event.family \in {"Chat", "Status"} /\ nsent < MaxSent /\ ClientSend(event)

SpecClient == Init /\ [][NextClient]_vars

(***************************************************************************)
(* SpecFold: accounts and connections are added and removed while the      *)
(* connections publish events and the folding tasks run.                   *)
(***************************************************************************)
NextFold ==
    \/ AddAccount
    \/ \E acc_id \in AccountIds : RemoveAccount(acc_id)
    \/ \E acc_id \in AccountIds : AddConnection(acc_id)
    \/ \E cid \in ConnIds, event \in ClientEvents :
            nsent < MaxPublished /\ Publish(cid, event)
    \/ \E cid \in ConnIds : FoldLagged(cid)
    \/ \E cid \in ConnIds : FoldStep(cid)
    \/ \E cid \in ConnIds : FoldClosed(cid)

SpecFold == Init /\ [][NextFold]_vars

(***************************************************************************)
(* Properties of the StateClient of src/src/client.rs.                     *)
(***************************************************************************)
\* the selected context names an account of the client and a connection that
\* account owns
C21_Live ==
    /\ selected # <<>>
    /\ selected[1].account \in DOMAIN accounts
    /\ selected[1].connection \in accounts[selected[1].account].connections

\* C21: send(event) hands the event to the connection of the selected context
\* and to no other connection, and returns what that connection returns; with
\* no selected context, or one whose account is not in the client or whose
\* connection is not owned by that account, it returns an error and no
\* connection receives anything.  The client itself is left as it was.
C21_SendTargetsCursor ==
    [][did'.op = "send" =>
        /\ accounts' = accounts
        /\ selected' = selected
        /\ IF C21_Live
           THEN /\ did'.result = "Ok"
                /\ \A c \in DOMAIN conns :
                    conns'[c] = IF c = selected[1].connection
                                THEN [conns[c] EXCEPT !.sent = Append(@, did'.event)]
                                ELSE conns[c]
           ELSE /\ did'.result \in {"no active context", "account not found",
                                    "connection not found"}
                /\ conns' = conns]_vars

\* a send was forwarded while the client held two connections
C21_Witness ==
    /\ did.op = "send"
    /\ did.result = "Ok"
    /\ Cardinality(DOMAIN conns) = 2
    /\ \A c \in DOMAIN conns : ~conns[c].dropped
    /\ conns[selected[1].connection].sent # <<>>

\* C22: remove_account(a) of a known account takes a and nothing else out of
\* the account map, calls disconnect() once on each connection a owned and on
\* no other connection, and afterwards list_connections(a) and
\* list_channels(a, c) are None for every c; for an unknown id the accounts and
\* the connections are left as they were.
C22_RemoveAccountDisconnectsOwned ==
    [][did'.op = "remove_account" =>
        LET a == did'.account IN
        IF a \in DOMAIN accounts
        THEN /\ DOMAIN accounts' = DOMAIN accounts \ {a}
             /\ \A b \in DOMAIN accounts' : accounts'[b] = accounts[b]
             /\ DOMAIN conns' = DOMAIN conns
             /\ \A c \in DOMAIN conns :
                    /\ conns'[c].disconnects =
                            conns[c].disconnects
                            + (IF c \in accounts[a].connections THEN 1 ELSE 0)
                    /\ conns'[c].sent = conns[c].sent
             /\ client_list_connections(Client', a) = <<>>
             /\ \A c \in ConnIds : list_channels(Client', a, c) = <<>>
        ELSE /\ accounts' = accounts
             /\ conns' = conns]_vars

\* an account that owned a connection was removed while another account with a
\* connection of its own stayed
C22_Witness ==
    /\ did.op = "remove_account"
    /\ did.account \notin DOMAIN accounts
    /\ \E c \in DOMAIN conns : conns[c].dropped /\ conns[c].disconnects = 1
    /\ \E b \in DOMAIN accounts : \E c \in accounts[b].connections :
            conns[c].disconnects = 0

\* the events of one family and one scope among the events a folding task
\* received, in the order it received them
C27_Delivered(got, family, scope) ==
    LET Test(e) == e.family = family /\ e.channel_id = scope
    IN  SelectSeq(got, Test)

\* the aggregate of an account under a connection and a scope; one that was
\* never created holds nothing
C27_Aggregate(ac, c, scope) ==
    IF scope \in DOMAIN ac.channel_states[c]
    THEN ac.channel_states[c][scope]
    ELSE ChannelState_default

\* C27: in every account the aggregates are keyed by the connections of that
\* account, and the aggregate under connection c and scope s holds exactly the
\* Chat events (chat history), User events (user list) and Asset events (asset
\* list) with scope s that the folding task of c received, once each and in the
\* order of their delivery: an event changes no aggregate under another
\* connection, account or scope.
C27_FoldedOncePerScope ==
    \A a \in DOMAIN accounts :
        /\ DOMAIN accounts[a].channel_states = accounts[a].connections
        /\ \A c \in accounts[a].connections :
            /\ folds[c].account = a
            /\ DOMAIN accounts[a].channel_states[c] \subseteq Scopes
            /\ \A s \in Scopes :
                LET agg == C27_Aggregate(accounts[a], c, s) IN
                /\ agg.chat_history = C27_Delivered(folds[c].got, "Chat", s)
                /\ agg.user_list = C27_Delivered(folds[c].got, "User", s)
                /\ agg.asset_list = C27_Delivered(folds[c].got, "Asset", s)

\* two different chat events of one scope were folded, in their order, while
\* another account held a connection of its own
C27_Witness ==
    \E a \in DOMAIN accounts : \E c \in accounts[a].connections :
        /\ None \in DOMAIN accounts[a].channel_states[c]
        /\ Len(accounts[a].channel_states[c][None].chat_history) = 2
        /\ accounts[a].channel_states[c][None].chat_history[1]
                # accounts[a].channel_states[c][None].chat_history[2]
        /\ \E b \in DOMAIN accounts \ {a} : accounts[b].connections # {}

(***************************************************************************)
(* Properties of the reader task and of the event queue.                   *)
(***************************************************************************)
\* the entries of a sequence of queue entries that the reader of session s
\* published
ByReader(entries, s) ==
    LET Test(e) == e.by.task = "reader" /\ e.by.session = s
    IN  SelectSeq(entries, Test)

\* the events of a sequence of queue entries
EventsOf(entries) == [i \in DOMAIN entries |-> entries[i].event]

\* the events the frames give when each is translated in turn, the cursor and
\* the catalog flag carried from one frame to the next
RECURSIVE Translated(_, _)
Translated(frames, r) ==
    IF frames = <<>> THEN <<>>
    ELSE LET after == reader_translate(Head(frames).packet, [r EXCEPT !.pending = <<>>])
         IN  after.pending \o Translated(Tail(frames), after)

\* the reader of a session as its task starts
ReaderStart(s) ==
    [session[s] EXCEPT !.current_channel = None, !.assets_sent = FALSE, !.pending = <<>>]

C24_TransportClosed(s) ==
    /\ Len(session) >= s
    /\ session[s].reader = "ended"
    /\ \A i \in DOMAIN event_tx : event_tx[i].by.task # "disconnect"

\* a Status::Disconnected is on the event queue
C24_DisconnectedPublished ==
    \E i \in DOMAIN event_tx :
        /\ event_tx[i].event.family = "Status"
        /\ event_tx[i].event.kind = "Disconnected"

\* C24: once the inbound stream of the session has ended without disconnect()
\* having been called, a Status::Disconnected is eventually published on the
\* event queue.
C24_TransportCloseReported ==
    \A s \in 1..1 : C24_TransportClosed(s) ~> C24_DisconnectedPublished

\* the channel of the last successful join or forced switch among the first k
\* frames the reader of session s read; None when there is none
RECURSIVE CursorAt(_, _)
CursorAt(s, k) ==
    IF k = 0 THEN None
    ELSE IF session[s].read[k].packet.type \in {"GoodAuth", "ForcedSwitch"}
         THEN session[s].read[k].packet.channel_name
         ELSE CursorAt(s, k - 1)

\* an inbound item that is a transport error or does not decode
Unusable(packet) == packet.type \in {"Error", "Undecodable"}

\* the reader of session s takes an unusable item in this step
C25_Takes(s) ==
    /\ Len(session'[s].read) = Len(session[s].read) + 1
    /\ Unusable(session'[s].read[Len(session'[s].read)].packet)

\* C25: the step in which the reader takes an item that is a transport error
\* or does not decode puts nothing on the event queue, gives the reader no
\* event to publish, leaves current_channel as it was and leaves the reader
\* running; and a chat message or a forced switch read after such an item is
\* still translated and published, once the reader is done with it.
C25_UnusableItemSkipped ==
    /\ [][\A s \in DOMAIN session :
            C25_Takes(s) =>
                /\ event_tx' = event_tx
                /\ session'[s].pending = <<>>
                /\ session'[s].current_channel = session[s].current_channel
                /\ session'[s].assets_sent = session[s].assets_sent
                /\ session'[s].reader = "running"]_vars
    /\ [](\A s \in DOMAIN session : \A i, j \in DOMAIN session[s].read :
            /\ i < j
            /\ Unusable(session[s].read[i].packet)
            /\ PacketEvents(session[s].read[i].n) = <<>>
            /\ PacketDone(s, session[s].read[j].n)
            => LET packet == session[s].read[j].packet IN
               /\ packet.type = "ChatMessage" =>
                    PacketEvents(session[s].read[j].n)
                        = <<[family |-> "Chat", kind |-> "New",
                             channel_id |-> CursorAt(s, j),
                             message |-> Message(packet.sequence_id, packet.message)]>>
               /\ packet.type = "ForcedSwitch" =>
                    PacketEvents(session[s].read[j].n)
                        = <<[family |-> "Channel", kind |-> "Switch",
                             channel_id |-> packet.channel_name]>>)
    /\ [](\A s \in DOMAIN session : \A i \in DOMAIN session[s].read :
            Unusable(session[s].read[i].packet)
                => PacketEvents(session[s].read[i].n) = <<>>)

\* after a transport error the reader took a chat message and published it
C25_Witness ==
    \E s \in DOMAIN session :
        /\ Len(session[s].read) = 2
        /\ session[s].read[1].packet.type = "Error"
        /\ session[s].read[2].packet.type = "ChatMessage"
        /\ Len(PacketEvents(session[s].read[2].n)) = 1

\* the position, among the frames the reader of session s read, of the frame
\* numbered n
FrameIndex(s, n) == CHOOSE k \in DOMAIN session[s].read : session[s].read[k].n = n

\* C28: the reader's current_channel is the channel of the last successful join
\* or forced switch it read (None before the first), and every event it
\* publishes that carries a channel carries the channel that was current when
\* its frame had been translated: from a forced switch to c on, the
\* Channel::Switch of that frame included, that is c until the next successful
\* join or forced switch.
C28_ForcedSwitchMovesScope ==
    \A s \in DOMAIN session :
        /\ session[s].current_channel = CursorAt(s, Len(session[s].read))
        /\ \A i \in DOMAIN event_tx :
            /\ event_tx[i].by.task = "reader"
            /\ event_tx[i].by.session = s
            /\ "channel_id" \in DOMAIN event_tx[i].event
            => event_tx[i].event.channel_id
                    = CursorAt(s, FrameIndex(s, event_tx[i].by.packet))

\* after a forced switch to c2 the reader published a chat message under c2,
\* and the cursor is still c2
C28_Witness ==
    \E s \in DOMAIN session :
        /\ Len(session[s].read) = 2
        /\ session[s].read[1].packet.type = "ForcedSwitch"
        /\ session[s].read[1].packet.channel_name = "c2"
        /\ session[s].read[2].packet.type = "ChatMessage"
        /\ session[s].current_channel = "c2"
        /\ \E i \in DOMAIN event_tx :
            /\ event_tx[i].by.packet = session[s].read[2].n
            /\ event_tx[i].event.kind = "New"
            /\ event_tx[i].event.channel_id = "c2"

\* one event for a flag that is set, none for one that is not
C29_If(flag, event) == IF flag THEN <<event>> ELSE <<>>

\* the reader of session s takes a context-clear packet in this step
C29_Takes(s) ==
    /\ Len(session'[s].read) = Len(session[s].read) + 1
    /\ session'[s].read[Len(session'[s].read)].packet.type = "ContextClearing"

\* C29: the events the reader publishes for a context-clear packet are, once it
\* is done with the packet, Channel::Wipe with the current scope if
\* message_history is set, then User::ClearList with the current scope if
\* user_list is set, then Channel::ClearList if channel_list is set, and no
\* other event (none at all when no flag is set); taking the packet leaves
\* current_channel as it was.
C29_ContextClearPerFlag ==
    /\ [](\A s \in DOMAIN session : \A k \in DOMAIN session[s].read :
            /\ session[s].read[k].packet.type = "ContextClearing"
            /\ PacketDone(s, session[s].read[k].n)
            => LET packet == session[s].read[k].packet
                   scope == CursorAt(s, k)
               IN  PacketEvents(session[s].read[k].n)
                    = C29_If(packet.message_history,
                             [family |-> "Channel", kind |-> "Wipe", channel_id |-> scope])
                      \o C29_If(packet.user_list,
                                [family |-> "User", kind |-> "ClearList",
                                 channel_id |-> scope])
                      \o C29_If(packet.channel_list,
                                [family |-> "Channel", kind |-> "ClearList"]))
    /\ [][\A s \in DOMAIN session :
            C29_Takes(s) =>
                session'[s].current_channel = session[s].current_channel]_vars

\* after a forced switch, a context clear with all three flags was published
\* as three events
C29_Witness ==
    \E s \in DOMAIN session :
        /\ Len(session[s].read) = 2
        /\ session[s].read[1].packet.type = "ForcedSwitch"
        /\ session[s].read[2].packet.type = "ContextClearing"
        /\ session[s].read[2].packet.message_history
        /\ session[s].read[2].packet.user_list
        /\ session[s].read[2].packet.channel_list
        /\ Len(PacketEvents(session[s].read[2].n)) = 3
        /\ session[s].current_channel # None

(***************************************************************************)
(* Properties of the projection of src/src/client/stateclient.rs.          *)
(***************************************************************************)
\* the event is Status::Connected or Status::Disconnected
C30_Sets(event) == event.family = "Status" /\ event.kind \in {"Connected", "Disconnected"}

\* C30: the projection track() creates has status Disconnected; a processed
\* Status::Connected or Status::Disconnected makes the status the kind of that
\* event; a processed Status::Ping, Chat, Channel, User or Asset event leaves
\* the status as it was.  So the status is at every moment the kind of the last
\* Connected or Disconnected event processed since track(), Disconnected when
\* there was none.
C30_StatusFollowsLastStatusEvent ==
    /\ last.op = "track" => storage[last.id].status = "Disconnected"
    /\ Applied =>
        After.status = IF C30_Sets(last.event) THEN last.event.kind ELSE Before.status

\* a ping was processed on a projection that was Connected, and it still is
C30_Witness ==
    /\ Applied
    /\ last.event.family = "Status"
    /\ last.event.kind = "Ping"
    /\ Before.status = "Connected"
    /\ After.status = "Connected"

\* the projection after the events of a queue were applied in queue order
RECURSIVE Drained(_, _)
Drained(state, queue) ==
    IF queue = <<>> THEN state ELSE Drained(process_event(state, Head(queue)), Tail(queue))

\* a Status::Connected waits in the queue of the task of a tracked connection
C26_ConnectedQueued(id) ==
    /\ id \in DOMAIN storage
    /\ tasks[id] \in {"running", "draining"}
    /\ \E i \in DOMAIN rx[id] : rx[id][i].family = "Status" /\ rx[id][i].kind = "Connected"

\* C26: at every moment the projection of a tracked connection, with the
\* events still in the queue of its task applied in queue order, is the
\* projection that the events sent so far give in the order they were sent (so
\* the task applies every event, in queue order); the task ends only when the
\* source is closed and the queue empty, and then it does end; and a
\* Status::Connected in the queue of a tracked connection leads to the status
\* Connected, unless the connection is untracked first.
C26_ProcessorDrainsInOrder ==
    /\ [](\A id \in DOMAIN storage :
            tasks[id] # "none" => Drained(storage[id], rx[id]) = serial[id])
    /\ [](\A id \in ConnIds : tasks[id] = "finished" => rx[id] = <<>>)
    /\ \A id \in ConnIds : (tasks[id] = "draining") ~> (tasks[id] = "finished")
    /\ \A id \in ConnIds :
        C26_ConnectedQueued(id)
            ~> (id \notin DOMAIN storage \/ storage[id].status = "Connected")

\* the task has applied a Status::Connected and a second event and has ended
\* after the source was closed
C26_Witness ==
    \E id \in DOMAIN storage :
        /\ tasks[id] = "finished"
        /\ nevents >= 2
        /\ storage[id].status = "Connected"
        /\ storage[id] = serial[id]

\* the event ends the stay on channel c: a Switch, a Kick, or a Leave of c
C31_Ends(event, c) ==
    /\ event.family = "Channel"
    /\ \/ event.kind \in {"Switch", "Kick"}
       \/ event.kind = "Leave" /\ event.channel_id = c

\* C31: a processed Channel::Switch{c} makes current_channel Some(c) and
\* changes nothing else of the projection, so it creates and modifies no
\* channel; and when current_channel is Some(c), every processed event that
\* is not a Switch, a Kick or a Leave{c} leaves it Some(c).
C31_SwitchSetsCurrentChannel ==
    Applied =>
        /\ (last.event.family = "Channel" /\ last.event.kind = "Switch") =>
                /\ After.current_channel = last.event.channel_id
                /\ After.current_channel # None
                /\ After = [Before EXCEPT !.current_channel = last.event.channel_id]
        /\ (Before.current_channel # None
                /\ ~C31_Ends(last.event, Before.current_channel)) =>
                After.current_channel = Before.current_channel

\* after a Switch to a channel, a Leave of another channel was processed and
\* the current channel is still the one switched to
C31_Witness ==
    /\ Applied
    /\ last.event.family = "Channel"
    /\ last.event.kind = "Leave"
    /\ Before.current_channel = "c1"
    /\ last.event.channel_id = "c2"
    /\ After.current_channel = "c1"

\* the last processed event is a Chat::New without a channel scope
C35_Case ==
    /\ Applied
    /\ last.event.family = "Chat"
    /\ last.event.kind = "New"
    /\ last.event.channel_id = None

\* C35: a processed Chat::New with scope None leaves the whole store as it
\* was, so the message is in no channel and in no global collection; the
\* loop of spawn_processor leaves the same projection unchanged too.
C35_UnscopedChatNewDiscarded ==
    C35_Case =>
        /\ storage = pre
        /\ process_event(Before, last.event) = Before

\* a Chat::New without a scope was processed on a projection that has a
\* channel and a current channel, and nothing changed
C35_Witness ==
    /\ C35_Case
    /\ Before.current_channel # None
    /\ Before.current_channel \in DOMAIN Before.channels
    /\ storage = pre

\* C36: in every projection of the store, current_channel is None or the id
\* of a channel of the channel map.
C36_CurrentChannelPresent ==
    \A id \in DOMAIN storage :
        storage[id].current_channel # None =>
            storage[id].current_channel \in DOMAIN storage[id].channels

(***************************************************************************)
(* SpecLock: process(), the task of spawn_processor and a getter on one    *)
(* tracked connection, each call followed from one await to the next: the  *)
(* request of the lock of the store, the mutations made under the guard    *)
(* and the drop of the guard (src/src/client/stateclient.rs).              *)
(***************************************************************************)
MaxLocked == 3

\* the events handed over in SpecLock
LockEvents ==
    {[family |-> "Chat", kind |-> "New", channel_id |-> "c1", message |-> Message("m1", "x")],
     [family |-> "User", kind |-> "New", channel_id |-> "c1", user |-> Profile("u1", "alice")],
     [family |-> "Channel", kind |-> "Switch", channel_id |-> "c1"],
     [family |-> "Status", kind |-> "Connected"]}

\* a lock that hands out an exclusive guard while shared guards are out
RwLock_write_ready_Shared(l) == l.writer = None

\* RwLock::write().await returns: no guard of any kind is out
RwLock_write_ready(l) == l.writer = None /\ l.readers = {}

\* RwLock::read().await returns: no exclusive guard is out
RwLock_read_ready(l) == l.writer = None

\* the state after the first of the two mutations of a scoped New event,
\* get_or_create_channel, and before the insertion into the channel
first_mutation(state, event) ==
    IF event.family \in {"User", "Chat", "Asset"} /\ event.kind = "New"
            /\ event.channel_id # None
    THEN get_or_create_channel(state, event.channel_id)
    ELSE state

\* a step of a thread that leaves the store and the queue alone
ThreadStep(t, thread) ==
    /\ threads' = [threads EXCEPT ![t] = thread]
    /\ UNCHANGED <<storage, uuids, tasks, rx, tracked, pre, last, serial>>
    /\ UNCHANGED <<sockvars, received, muxvars>>

\* process(connection_id, event) is called: the caller awaits storage.write()
ProcessCall(t, connection_id, event) ==
    /\ threads[t].pc = "idle"
    /\ ThreadStep(t, [pc |-> "write", id |-> connection_id, event |-> event])
    /\ issued' = [issued EXCEPT ![t] = Append(@, event)]
    /\ nevents' = nevents + 1
    /\ UNCHANGED <<rwlock, applied, seen>>

\* the publisher sends one event on the queue of the task
SourceSend(connection_id, event) ==
    /\ tasks[connection_id] = "running"
    /\ rx' = [rx EXCEPT ![connection_id] = Append(@, event)]
    /\ issued' = [issued EXCEPT !["task"] = Append(@, event)]
    /\ nevents' = nevents + 1
    /\ UNCHANGED <<storage, uuids, tasks, tracked, pre, last, serial>>
    /\ UNCHANGED <<rwlock, threads, applied, seen>>
    /\ UNCHANGED <<sockvars, received, muxvars>>

\* spawn_processor: rx.recv() yields Some(event); the task awaits storage.write()
ProcessorRecv(connection_id) ==
    /\ tasks[connection_id] = "running"
    /\ threads["task"].pc = "idle"
    /\ rx[connection_id] # <<>>
    /\ threads' = [threads EXCEPT !["task"] =
                        [pc |-> "write", id |-> connection_id,
                         event |-> Head(rx[connection_id])]]
    /\ rx' = [rx EXCEPT ![connection_id] = Tail(@)]
    /\ UNCHANGED <<storage, uuids, tasks, tracked, pre, last, serial, nevents>>
    /\ UNCHANGED <<rwlock, applied, issued, seen>>
    /\ UNCHANGED <<sockvars, received, muxvars>>

\* storage.write().await returns the exclusive guard
WriteLock(t) ==
    /\ threads[t].pc = "write"
    /\ RwLock_write_ready(rwlock["storage"])
    /\ rwlock' = [rwlock EXCEPT !["storage"].writer = t]
    /\ ThreadStep(t, [threads[t] EXCEPT !.pc = "locked"])
    /\ UNCHANGED <<applied, issued, seen, nevents>>

\* under the guard: the lookup of the projection and the first mutation
WriteFirst(t) ==
    /\ threads[t].pc = "locked"
    /\ storage' = IF threads[t].id \in DOMAIN storage
                  THEN [storage EXCEPT ![threads[t].id] =
                            first_mutation(@, threads[t].event)]
                  ELSE storage
    /\ threads' = [threads EXCEPT ![t].pc = "mutating"]
    /\ UNCHANGED <<uuids, tasks, rx, tracked, pre, last, serial, nevents>>
    /\ UNCHANGED <<rwlock, applied, issued, seen>>
    /\ UNCHANGED <<sockvars, received, muxvars>>

\* under the guard: the rest of the match arm; the guard is dropped at the end
\* of process() or of the loop body
WriteRest(t) ==
    /\ threads[t].pc = "mutating"
    /\ storage' = IF t = "task"
                  THEN processor_apply(storage, threads[t].id, threads[t].event)
                  ELSE process(storage, threads[t].id, threads[t].event)
    /\ rwlock' = [rwlock EXCEPT !["storage"].writer = None]
    /\ threads' = [threads EXCEPT ![t] = Thread_new]
    /\ applied' = Append(applied, [by |-> t, event |-> threads[t].event])
    /\ UNCHANGED <<uuids, tasks, rx, tracked, pre, last, serial, nevents>>
    /\ UNCHANGED <<issued, seen>>
    /\ UNCHANGED <<sockvars, received, muxvars>>

\* get_connection(connection_id) is called: the caller awaits storage.read()
ReadCall(t, connection_id) ==
    /\ threads[t].pc = "idle"
    /\ ThreadStep(t, [pc |-> "read", id |-> connection_id, event |-> NoEvent])
    /\ UNCHANGED <<rwlock, applied, issued, seen, nevents>>

\* storage.read().await returns a shared guard
ReadLock(t) ==
    /\ threads[t].pc = "read"
    /\ RwLock_read_ready(rwlock["storage"])
    /\ rwlock' = [rwlock EXCEPT !["storage"].readers = @ \cup {t}]
    /\ ThreadStep(t, [threads[t] EXCEPT !.pc = "reading"])
    /\ UNCHANGED <<applied, issued, seen, nevents>>

\* get_connection clones the projection and drops the guard
ReadDone(t) ==
    /\ threads[t].pc = "reading"
    /\ seen' = <<[value |-> Some(storage[threads[t].id]), n |-> Len(applied)]>>
    /\ rwlock' = [rwlock EXCEPT !["storage"].readers = @ \ {t}]
    /\ ThreadStep(t, Thread_new)
    /\ UNCHANGED <<applied, issued, nevents>>

NextLock ==
    \/ \E protocol_name \in ProtocolNames : uuids = {} /\ Track(protocol_name)
    \/ \E connection_id \in tracked : SpawnProcessor(connection_id)
    \/ \E t \in Callers, connection_id \in tracked, event \in LockEvents :
            nevents < MaxLocked /\ ProcessCall(t, connection_id, event)
    \/ \E connection_id \in tracked, event \in LockEvents :
            nevents < MaxLocked /\ SourceSend(connection_id, event)
    \/ \E connection_id \in tracked : ProcessorRecv(connection_id)
    \/ \E t \in Writers : WriteLock(t)
    \/ \E t \in Writers : WriteFirst(t)
    \/ \E t \in Writers : WriteRest(t)
    \/ \E t \in Readers, connection_id \in tracked : ReadCall(t, connection_id)
    \/ \E t \in Readers : ReadLock(t)
    \/ \E t \in Readers : ReadDone(t)

SpecLock == Init /\ [][NextLock]_vars

\* the threads that hold the exclusive guard of the store
Writing == {t \in Writers : threads[t].pc \in {"locked", "mutating"}}

\* the threads that hold a shared guard of the store
Reading == {t \in Readers : threads[t].pc = "reading"}

\* the entries of a list of applied events that came from one source
BySource(entries, t) == LET Test(e) == e.by = t IN SelectSeq(entries, Test)

\* the projection after whole events were applied one after the other, each
\* by the reducer of its source
RECURSIVE Sequential(_, _)
Sequential(state, entries) ==
    IF entries = <<>> THEN state
    ELSE Sequential(IF Head(entries).by = "task"
                    THEN process_event(state, Head(entries).event)
                    ELSE process_match(state, Head(entries).event),
                    Tail(entries))

\* C32: at most one thread is between taking and dropping the exclusive
\* guard of the store, and no getter holds a shared guard meanwhile; what a
\* getter returns is the projection after a whole number of events, those
\* applied before it took its guard; whenever no writer holds the guard the
\* projection is the one the applied events give one after the other in the
\* order the guards were dropped; and that order keeps the order of the calls
\* of each process() caller and the order of the queue of the task.
C32_AtomicPerEvent ==
    /\ Cardinality(Writing) <= 1
    /\ Writing # {} => Reading = {}
    /\ \A t \in Writing : rwlock["storage"].writer = t
    /\ \A id \in DOMAIN storage :
        LET fresh == ConnectionState_new(id, "mock") IN
        /\ Writing = {} => storage[id] = Sequential(fresh, applied)
        /\ seen # <<>> =>
                seen[1].value = Some(Sequential(fresh, SubSeq(applied, 1, seen[1].n)))
    /\ \A t \in Writers :
        LET mine == BySource(applied, t) IN
        IsPrefix([i \in DOMAIN mine |-> mine[i].event], issued[t])

\* the task is between the two mutations of an event, so the store holds a
\* channel without the new entry, while the process() caller and the getter
\* wait for the lock; an event of the caller was applied before
C32_Witness ==
    /\ threads["task"].pc = "mutating"
    /\ threads["caller"].pc = "write"
    /\ threads["reader"].pc = "read"
    /\ Len(applied) = 1
    /\ applied[1].by = "caller"
    /\ \E id \in DOMAIN storage :
        /\ storage[id] # Sequential(ConnectionState_new(id, "mock"), applied)
        /\ storage[id] # process_event(storage[id], threads["task"].event)

(***************************************************************************)
(* SpecLossy: the two loops that read a broadcast queue, each with its     *)
(* publisher.  The owner of a SockchatConnection connects once, sends      *)
(* texts and drops the connection or disconnects, while the writer task    *)
(* runs; one connection of one account of the StateClient of client.rs     *)
(* publishes events, and the account is removed, while its folding task    *)
(* runs.                                                                   *)
(***************************************************************************)
MaxLossy == 2

\* the texts sent in SpecLossy
LossyTexts == {"hi", "yo"}

\* the events a connection publishes and the owner sends in SpecLossy
LossyEvents ==
    {[family |-> "Chat", kind |-> "New", channel_id |-> None,
      message |-> [id |-> None, content |-> <<Text(t)>>]] : t \in LossyTexts}

NextLossy ==
    \/ \E fields \in SessionAuthLists : auth = <<>> /\ SetAuth(fields)
    \/ auth # <<>> /\ session = <<>> /\ ~dropped /\ Connect(TRUE, <<>>)
    \/ \E event \in LossyEvents :
            session # <<>> /\ ~dropped /\ ncalls <= MaxLossy /\ SendEvent(event)
    \/ session # <<>> /\ ~dropped /\ shutdown_tx # NoSender /\ Disconnect(FALSE)
    \/ session # <<>> /\ DropConnection
    \/ \E s \in DOMAIN session : WriterStep(s)
    \/ \E s \in DOMAIN session : WriterLagged(s)
    \/ \E s \in DOMAIN session : WriterClosed(s)
    \/ \E s \in DOMAIN session : WriterCancel(s)
    \/ made = {} /\ AddAccount
    \/ \E acc_id \in AccountIds : conns = [c \in {} |-> None] /\ AddConnection(acc_id)
    \/ \E acc_id \in AccountIds : conns # [c \in {} |-> None] /\ RemoveAccount(acc_id)
    \/ \E cid \in ConnIds, event \in LossyEvents :
            nsent < MaxLossy /\ Publish(cid, event)
    \/ \E cid \in ConnIds : FoldLagged(cid)
    \/ \E cid \in ConnIds : FoldStep(cid)
    \/ \E cid \in ConnIds : FoldClosed(cid)

SpecLossy == Init /\ [][NextLossy]_vars

\* a is b with some entries left out: the same entries in the same order
RECURSIVE IsSubsequence(_, _)
IsSubsequence(a, b) ==
    IF a = <<>> THEN TRUE
    ELSE IF b = <<>> THEN FALSE
    ELSE IF Head(a) = Head(b) THEN IsSubsequence(Tail(a), Tail(b))
    ELSE IsSubsequence(a, Tail(b))

\* the texts of the message packets among the frames written on a transport
MessageTexts(wire) ==
    LET IsMessage(f) == f.frame = "Message"
        frames == SelectSeq(wire, IsMessage)
    IN  [i \in DOMAIN frames |-> frames[i].text]

\* C33: a lag notification leaves the writer task and the folding task in
\* their loop; what the writer has written is the frames of the outbound
\* queue with some left out, in the order they were sent, and what the
\* folding task has received is the events published with some left out, in
\* the order they were published; a writer that has nothing left to take has
\* written the newest frame, and a folding task too has received the newest
\* event, so a lag costs only overwritten items; and the loop of either task
\* has ended only after its queue was closed, by the drop of every sender,
\* and emptied.  (A writer can also be cancelled from outside, by the abort
\* of disconnect(): that is no end of its loop.)
C33_LagNeverEndsConsumer ==
    /\ [][/\ \A s \in DOMAIN session :
                s \in DOMAIN session' /\ session'[s].lags # session[s].lags =>
                    /\ session'[s].writer = "waiting"
                    /\ session'[s].wire = session[s].wire
          /\ did'.op = "fold" /\ did'.result = "Lagged" =>
                /\ folds'[did'.connection].state = "running"
                /\ folds'[did'.connection].got = folds[did'.connection].got]_vars
    /\ [](\A s \in DOMAIN session :
            /\ IsSubsequence(MessageTexts(session[s].wire), ws_tx)
            /\ (session[s].writer \in {"waiting", "ended"} /\ ~session[s].aborted
                    /\ session[s].rx = Len(ws_tx) /\ ws_tx # <<>>) =>
                    /\ MessageTexts(session[s].wire) # <<>>
                    /\ MessageTexts(session[s].wire)[Len(MessageTexts(session[s].wire))]
                            = ws_tx[Len(ws_tx)]
            /\ session[s].writer = "ended" => dropped /\ session[s].rx = Len(ws_tx))
    /\ [](\A cid \in DOMAIN folds :
            /\ IsSubsequence(folds[cid].got, folds[cid].sent)
            /\ (folds[cid].queue = <<>> /\ folds[cid].missed = 0
                    /\ folds[cid].sent # <<>>) =>
                    /\ folds[cid].got # <<>>
                    /\ folds[cid].got[Len(folds[cid].got)]
                            = folds[cid].sent[Len(folds[cid].sent)]
            /\ folds[cid].state = "ended" =>
                    conns[cid].dropped /\ folds[cid].queue = <<>>)

\* the writer has lagged, missed the first text and written the second, and
\* its loop has ended after the connection was dropped; the folding task has
\* lagged, missed the first event and received the second
C33_Witness ==
    /\ \E s \in DOMAIN session :
        /\ session[s].lags = 1
        /\ ws_tx = <<"hi", "yo">>
        /\ MessageTexts(session[s].wire) = <<"yo">>
        /\ session[s].writer = "ended"
    /\ \E cid \in DOMAIN folds :
        /\ Len(folds[cid].sent) = 2
        /\ Len(folds[cid].got) = 1
        /\ folds[cid].got[1] = folds[cid].sent[2]
        /\ folds[cid].got[1] # folds[cid].sent[1]

\* the last successful connect() was not followed by a disconnect(): the
\* connection holds the shutdown handle connect() stored and disconnect() takes
C34_Live == shutdown_tx # NoSender

\* C34: the connection holds the handles of three tasks while the last
\* successful connect() has not been followed by disconnect(), and of none
\* otherwise.
C34_ThreeTasksWhileLive == Len(conn_tasks) = IF C34_Live THEN 3 ELSE 0

\* a writer task holds its receiver of the outbound queue: it was spawned by
\* a successful connect() and has neither been cancelled nor ended
C40_ReceiverLive == \E s \in DOMAIN session : session[s].writer = "waiting"

\* C40: send() of a Chat::New whose first fragment is a text returns Ok, and
\* queues the text, exactly when a writer task holds a receiver of the
\* outbound queue; with none (before the first successful connect(), after
\* every writer was cancelled) it returns an error and leaves the queue and
\* every transport as they were; and at every moment the texts written on a
\* transport are texts of the queue in queue order, so a text that was turned
\* down is written by no writer of a later connect().
C40_SendNeedsLiveWriter ==
    /\ [][(call'.op = "send" /\ ChatNew(call'.event) /\ TextFirst(call'.event)) =>
            IF C40_ReceiverLive
            THEN /\ call'.result = "Ok"
                 /\ Len(ws_tx') = Len(ws_tx) + 1
            ELSE /\ call'.result # "Ok"
                 /\ ws_tx' = ws_tx
                 /\ session' = session]_vars
    /\ [](\A s \in DOMAIN session : IsSubsequence(MessageTexts(session[s].wire), ws_tx))

\* after connect() and disconnect() the writer was cancelled, and a send() of
\* a text has returned an error with nothing queued
C40_Witness ==
    /\ call.op = "send"
    /\ ChatNew(call.event)
    /\ TextFirst(call.event)
    /\ call.result # "Ok"
    /\ session # <<>>
    /\ \A s \in DOMAIN session : session[s].writer = "cancelled"
    /\ ws_tx = <<>>

\* C38: every account has an aggregate map for exactly the connections it
\* owns, and every connection it owns has the folding task of that account;
\* so no folding task has panicked at the lookup of its aggregate map; and a
\* folding task that receives an event after its account was removed leaves
\* the accounts as they are: nothing is folded and the account does not come
\* back.
C38_AggregateMapPerConnection ==
    /\ [](\A a \in DOMAIN accounts :
            /\ DOMAIN accounts[a].channel_states = accounts[a].connections
            /\ \A c \in accounts[a].connections : c \in DOMAIN folds /\ folds[c].account = a)
    /\ [](\A c \in DOMAIN folds : folds[c].state # "panicked")
    /\ [][(did'.op = "fold" /\ did'.result = "Ok" /\ did'.account \notin DOMAIN accounts) =>
            accounts' = accounts]_vars

\* the folding task of a connection has received an event after its account
\* was removed, while another account is there
C38_Witness ==
    /\ did.op = "fold"
    /\ did.result = "Ok"
    /\ did.account \notin DOMAIN accounts
    /\ accounts # [a \in {} |-> None]
    /\ \E c \in DOMAIN folds : folds[c].account = did.account /\ folds[c].got # <<>>

\* StateClient::current_state as a call: the cursor and the accounts are read
\* under their read guards, nothing is written
CurrentState ==
    /\ did' = Did("current_state", None, None,
                  IF current_state(Client) = <<>> THEN "None" ELSE "Some", NoEvent)
    /\ nsent' = nsent + 1
    /\ UNCHANGED <<accounts, selected, conns, folds, made>>
    /\ UNCHANGED <<clientvars, sockvars, received, lockvars>>

(***************************************************************************)
(* SpecCursor: every call of the StateClient of client.rs, current_state   *)
(* included, while the connections publish chat events and the folding     *)
(* tasks run; the selected context has no channel.                         *)
(***************************************************************************)
MaxCursor == 2

NextCursor ==
    \/ AddAccount
    \/ \E acc_id \in AccountIds : RemoveAccount(acc_id)
    \/ \E acc_id \in AccountIds : AddConnection(acc_id)
    \/ \E ctx \in SelectedContexts : ctx.channel_id = None /\ Select(ctx)
    \/ \E event \in LossyEvents : nsent < MaxCursor /\ ClientSend(event)
    \/ nsent < MaxCursor /\ CurrentState
    \/ \E cid \in ConnIds, event \in LossyEvents : nsent < MaxCursor /\ Publish(cid, event)
    \/ \E cid \in ConnIds : FoldLagged(cid)
    \/ \E cid \in ConnIds : FoldStep(cid)
    \/ \E cid \in ConnIds : FoldClosed(cid)

SpecCursor == Init /\ [][NextCursor]_vars

\* the cursor is set and names an account that is not in the account map
C39_Stale == selected # <<>> /\ selected[1].account \notin DOMAIN accounts

\* C39: a step that is not a select() leaves the selected cursor as it was,
\* be it add_account, add_connection, remove_account, send, current_state, a
\* published event or a step of a folding task; add_connection on an account
\* sets the selected_connection of that account to the new connection; and
\* while the cursor names an account that is gone, send() returns an error
\* and sends nothing and current_state() returns None.
C39_OnlySelectMovesCursor ==
    /\ [][did'.op # "select" => selected' = selected]_vars
    /\ [][(did'.op = "add_connection" /\ did'.account \in DOMAIN accounts) =>
            accounts'[did'.account].selected_connection = did'.connection]_vars
    /\ [][C39_Stale =>
            /\ did'.op = "send" => did'.result = "account not found" /\ conns' = conns
            /\ did'.op = "current_state" => did'.result = "None"]_vars

\* a context was selected, its account was removed, the cursor still names
\* it, and a send() has returned the error
C39_Witness ==
    /\ did.op = "send"
    /\ did.result = "account not found"
    /\ C39_Stale
    /\ selected[1].account \in made
    /\ selected[1].connection \in made

(***************************************************************************)
(* The locks of src/src/client.rs: the RwLock around the account map, the  *)
(* RwLock around the selected cursor and the Mutex around each connection. *)
(* tokio hands out the guards of a lock in the order they were asked for.  *)
(***************************************************************************)
\* the thread holds a guard of the lock
holds(locks, l, t) == locks[l].writer = t \/ t \in locks[l].readers

\* the thread waits for a guard of the lock
awaits(locks, l, t) ==
    \E i \in 1..Len(locks[l].queue) : locks[l].queue[i].thread = t

\* read().await, write().await and lock().await: the request joins the queue
lock_await(locks, l, t, mode) ==
    [locks EXCEPT ![l].queue = Append(@, [thread |-> t, mode |-> mode])]

\* the oldest request is the thread's and the guards that are out allow it
lock_grantable(locks, l, t) ==
    /\ locks[l].queue # <<>>
    /\ Head(locks[l].queue).thread = t
    /\ IF Head(locks[l].queue).mode = "write"
       THEN RwLock_write_ready(locks[l])
       ELSE RwLock_read_ready(locks[l])

\* the oldest request gets its guard
lock_grant(locks, l) ==
    LET request == Head(locks[l].queue) IN
    [locks EXCEPT ![l] =
        [queue |-> Tail(@.queue),
         writer |-> IF request.mode = "write" THEN request.thread ELSE @.writer,
         readers |-> IF request.mode = "read" THEN @.readers \cup {request.thread}
                     ELSE @.readers]]

\* a guard is dropped
lock_release(locks, l, t) ==
    [locks EXCEPT ![l].writer = IF @ = t THEN None ELSE @, ![l].readers = @ \ {t}]

\* the end of a function or of a task iteration: every guard it holds is dropped
release_all(locks, t) ==
    [l \in DOMAIN locks |->
        [locks[l] EXCEPT !.writer = IF @ = t THEN None ELSE @, !.readers = @ \ {t}]]

\* a guard bound to a variable that lives to the end of the function
drop_temporary_Kept(locks, l, t) == locks

\* send() and current_state(): the guard of selected.read().await is a
\* temporary of the let statement and is dropped at its end
drop_temporary(locks, l, t) == lock_release(locks, l, t)

\* the first lock a call asks for, and the guard it asks for
first_lock(op) ==
    IF op \in {"send", "select", "current_state"} THEN "selected" ELSE "accounts"

first_mode(op) ==
    IF op \in {"send", "current_state", "list_accounts"} THEN "read" ELSE "write"

\* a thread inside a call, waiting for the first guard of the call; ctx is
\* the argument of select() and sel the clone of the cursor, each <<>> when
\* the call has none
Thread_call(op, acc_id, ctx, event) ==
    [pc |-> "await", lock |-> first_lock(op), op |-> op, account |-> acc_id, ctx |-> ctx,
     event |-> event, sel |-> <<>>, todo |-> {}]

\* the thread returns from its call
Returns(t, op, acc_id, cid, result, event) ==
    /\ threads' = [threads EXCEPT ![t] = Thread_new]
    /\ did' = Did(op, acc_id, cid, result, event)

\* a caller enters a call of the StateClient and waits for its first guard;
\* the ids add_account and add_connection draw are those of the model, one
\* such call runs at a time
MuxCall(t, op, acc_id, ctx, event) ==
    /\ threads[t].pc = "idle"
    /\ op = "add_account" => AccountIds \ made # {}
    /\ op = "add_connection" => ConnIds \ made # {}
    /\ op \in {"add_account", "add_connection"} =>
            \A u \in Users : IF threads[u].pc = "idle" THEN TRUE ELSE threads[u].op # op
    /\ threads' = [threads EXCEPT ![t] = Thread_call(op, acc_id, ctx, event)]
    /\ rwlock' = lock_await(rwlock, first_lock(op), t, first_mode(op))
    /\ nsent' = nsent + 1
    /\ UNCHANGED <<accounts, selected, conns, folds, made, did>>
    /\ UNCHANGED <<applied, issued, seen>>
    /\ UNCHANGED <<clientvars, sockvars, received>>

\* the guard of the selected cursor is granted: select() writes the cursor and
\* returns; send() and current_state() clone it, drop the guard, and return
\* when it is None or ask for the read guard of the account map
CursorGranted(t) ==
    /\ threads[t].pc = "await"
    /\ threads[t].lock = "selected"
    /\ lock_grantable(rwlock, "selected", t)
    /\ LET granted == lock_grant(rwlock, "selected")
           my == threads[t]
       IN  IF my.op = "select"
           THEN /\ selected' = my.ctx
                /\ rwlock' = release_all(granted, t)
                /\ Returns(t, "select", my.ctx[1].account, my.ctx[1].connection, "Ok",
                           NoEvent)
           ELSE IF selected = <<>>
           THEN /\ rwlock' = release_all(granted, t)
                /\ Returns(t, my.op, None, None,
                           IF my.op = "send" THEN "no active context" ELSE "None", my.event)
                /\ UNCHANGED selected
           ELSE /\ threads' = [threads EXCEPT ![t].sel = selected,
                                              ![t].lock = "accounts"]
                /\ rwlock' = lock_await(drop_temporary(granted, "selected", t),
                                        "accounts", t, "read")
                /\ UNCHANGED <<selected, did>>
    /\ UNCHANGED <<accounts, conns, folds, made, nsent>>
    /\ UNCHANGED <<applied, issued, seen>>
    /\ UNCHANGED <<clientvars, sockvars, received>>

\* remove_account(), under the write guard of the account map: the account is
\* taken out of the map, and the call asks for the lock of one of its
\* connections, or returns when there is none
RemoveGranted(t, granted) ==
    LET acc_id == threads[t].account
        owned == IF acc_id \in DOMAIN accounts THEN accounts[acc_id].connections ELSE {}
    IN  /\ accounts' = IF acc_id \in DOMAIN accounts THEN MapRemove(accounts, acc_id)
                       ELSE accounts
        /\ UNCHANGED <<selected, conns, folds, made>>
        /\ IF owned = {}
           THEN /\ rwlock' = release_all(granted, t)
                /\ Returns(t, "remove_account", acc_id, None, "Ok", NoEvent)
           ELSE \E c \in owned :
                    /\ rwlock' = lock_await(granted, c, t, "write")
                    /\ threads' = [threads EXCEPT ![t].lock = c, ![t].todo = owned]
                    /\ UNCHANGED did

\* send(), under the read guard of the account map: the two lookups, and the
\* call asks for the lock of the connection or returns the error
SendGranted(t, granted) ==
    LET sel == threads[t].sel[1] IN
    /\ UNCHANGED <<accounts, selected, conns, folds, made>>
    /\ IF send_target(Client, sel) # "Ok"
       THEN /\ rwlock' = release_all(granted, t)
            /\ Returns(t, "send", None, None, send_target(Client, sel), threads[t].event)
       ELSE /\ rwlock' = lock_await(granted, sel.connection, t, "write")
            /\ threads' = [threads EXCEPT ![t].lock = sel.connection]
            /\ UNCHANGED did

\* the folding task, under the write guard of the account map: the event is
\* folded in when the account is there, and the guard is dropped
FoldGranted(t, granted) ==
    LET acc_id == threads[t].account
        found == acc_id \in DOMAIN accounts
        unwrapped == found /\ t \in DOMAIN accounts[acc_id].channel_states
    IN  /\ accounts' = IF unwrapped
                       THEN [accounts EXCEPT ![acc_id] = fold_apply(@, t, threads[t].event)]
                       ELSE accounts
        /\ folds' = [folds EXCEPT ![t].state = IF found /\ ~unwrapped THEN "panicked" ELSE @]
        /\ UNCHANGED <<selected, conns, made>>
        /\ rwlock' = release_all(granted, t)
        /\ Returns(t, "fold", acc_id, t, "Ok", threads[t].event)

\* a guard of the account map is granted, and the call runs to its next await
\* or to its end; add_connection locks the Mutex it has just made, which
\* nobody else can hold, within the step
AccountsGranted(t) ==
    /\ threads[t].pc = "await"
    /\ threads[t].lock = "accounts"
    /\ lock_grantable(rwlock, "accounts", t)
    /\ LET granted == lock_grant(rwlock, "accounts")
           my == threads[t]
       IN  CASE my.op = "add_account" ->
                    /\ ClientBecomes(add_account(Client).conn)
                    /\ rwlock' = release_all(granted, t)
                    /\ Returns(t, "add_account", add_account(Client).result, None, "Ok",
                               NoEvent)
             [] my.op = "add_connection" ->
                    /\ ClientBecomes(add_connection(Client, my.account).conn)
                    /\ rwlock' = release_all(granted, t)
                    /\ Returns(t, "add_connection", my.account,
                               add_connection(Client, my.account).result, "Ok", NoEvent)
             [] my.op = "remove_account" -> RemoveGranted(t, granted)
             [] my.op = "send" -> SendGranted(t, granted)
             [] my.op = "fold" -> FoldGranted(t, granted)
             [] my.op = "current_state" ->
                    /\ UNCHANGED <<accounts, selected, conns, folds, made>>
                    /\ rwlock' = release_all(granted, t)
                    /\ Returns(t, "current_state", None, None,
                               IF current_state([Client EXCEPT !.selected = my.sel]) = <<>>
                               THEN "None" ELSE "Some",
                               NoEvent)
             [] OTHER ->
                    /\ UNCHANGED <<accounts, selected, conns, folds, made>>
                    /\ rwlock' = release_all(granted, t)
                    /\ Returns(t, my.op, None, None, "Ok", NoEvent)
    /\ UNCHANGED nsent
    /\ UNCHANGED <<applied, issued, seen>>
    /\ UNCHANGED <<clientvars, sockvars, received>>

\* the lock of a connection is granted: the call is inside guard.send() or
\* c.disconnect()
ConnGranted(t) ==
    /\ threads[t].pc = "await"
    /\ threads[t].lock \in ConnIds
    /\ lock_grantable(rwlock, threads[t].lock, t)
    /\ rwlock' = lock_grant(rwlock, threads[t].lock)
    /\ threads' = [threads EXCEPT ![t].pc = "calling"]
    /\ UNCHANGED muxvars
    /\ UNCHANGED <<applied, issued, seen>>
    /\ UNCHANGED <<clientvars, sockvars, received>>

\* the call of the connection returns: send() returns with it; remove_account
\* drops the guard and the connection, and goes on to the next connection of
\* the removed account or returns
ConnReturned(t) ==
    /\ threads[t].pc = "calling"
    /\ LET my == threads[t]
           c == my.lock
           rest == my.todo \ {c}
       IN  IF my.op = "send"
           THEN /\ conns' = [conns EXCEPT ![c] = Connection_send(@, my.event)]
                /\ rwlock' = release_all(rwlock, t)
                /\ Returns(t, "send", None, None, "Ok", my.event)
           ELSE /\ conns' = [conns EXCEPT
                                ![c] = [Connection_disconnect(@) EXCEPT !.dropped = TRUE]]
                /\ IF rest = {}
                   THEN /\ rwlock' = release_all(rwlock, t)
                        /\ Returns(t, "remove_account", my.account, None, "Ok", NoEvent)
                   ELSE \E next \in rest :
                            /\ rwlock' = lock_await(lock_release(rwlock, c, t), next, t,
                                                    "write")
                            /\ threads' = [threads EXCEPT ![t].pc = "await",
                                                          ![t].lock = next,
                                                          ![t].todo = rest]
                            /\ UNCHANGED did
    /\ UNCHANGED <<accounts, selected, folds, made, nsent>>
    /\ UNCHANGED <<applied, issued, seen>>
    /\ UNCHANGED <<clientvars, sockvars, received>>

\* folding task: rx.recv() yields Ok(event), and the task asks for the write
\* guard of the account map
FoldRecv(cid) ==
    /\ cid \in DOMAIN folds
    /\ threads[cid].pc = "idle"
    /\ folds[cid].state = "running"
    /\ folds[cid].missed = 0
    /\ folds[cid].queue # <<>>
    /\ folds' = [folds EXCEPT ![cid].queue = Tail(@),
                              ![cid].got = Append(@, Head(folds[cid].queue))]
    /\ threads' = [threads EXCEPT
                      ![cid] = Thread_call("fold", folds[cid].account, <<>>,
                                           Head(folds[cid].queue))]
    /\ rwlock' = lock_await(rwlock, "accounts", cid, "write")
    /\ UNCHANGED <<accounts, selected, conns, made, did, nsent>>
    /\ UNCHANGED <<applied, issued, seen>>
    /\ UNCHANGED <<clientvars, sockvars, received>>

(***************************************************************************)
(* SpecOrder: the calls of the StateClient of client.rs and its folding    *)
(* tasks, lock by lock.  One thread sets the client up, call after call,   *)
(* with an account, a connection and a context that names them; then two   *)
(* threads call concurrently while the connections publish and the folding *)
(* tasks run.  A thread whose guard can be granted gets it, and a call of  *)
(* a connection returns.                                                   *)
(***************************************************************************)
MaxOrder == 2

\* the calls of the concurrent part
OrderCalls ==
    {Thread_call(op, None, <<>>, NoEvent) :
        op \in {"add_account", "current_state", "list_accounts"}}
    \cup {Thread_call(op, a, <<>>, NoEvent) :
            op \in {"add_connection", "remove_account"}, a \in AccountIds}
    \cup {Thread_call("select", None, <<SelectedContext(a, "k1", None)>>, NoEvent) :
            a \in AccountIds}
    \cup {Thread_call("send", None, <<>>, [family |-> "Status", kind |-> "Connected"])}

NextOrder ==
    \/ nsent = 0 /\ made = {} /\ AddAccount
    \/ \E acc_id \in AccountIds : nsent = 0 /\ conns = EmptyMap /\ AddConnection(acc_id)
    \/ \E ctx \in SelectedContexts :
            /\ nsent = 0
            /\ selected = <<>>
            /\ ctx.channel_id = None
            /\ send_target(Client, ctx) = "Ok"
            /\ Select(ctx)
    \/ \E t \in Users, c \in OrderCalls :
            nsent < MaxOrder /\ MuxCall(t, c.op, c.account, c.ctx, c.event)
    \/ \E t \in Users : CursorGranted(t)
    \/ \E t \in Users \cup ConnIds : AccountsGranted(t)
    \/ \E t \in Users : ConnGranted(t)
    \/ \E t \in Users : ConnReturned(t)
    \/ \E cid \in ConnIds, event \in LossyEvents : nsent < MaxOrder /\ Publish(cid, event)
    \/ \E cid \in ConnIds : threads[cid].pc = "idle" /\ FoldLagged(cid)
    \/ \E cid \in ConnIds : FoldRecv(cid)
    \/ \E cid \in ConnIds : threads[cid].pc = "idle" /\ FoldClosed(cid)

SpecOrder ==
    /\ Init
    /\ [][NextOrder]_vars
    /\ \A t \in Users : WF_vars(CursorGranted(t))
    /\ \A t \in Users \cup ConnIds : WF_vars(AccountsGranted(t))
    /\ \A t \in Users : WF_vars(ConnGranted(t))
    /\ \A t \in Users : WF_vars(ConnReturned(t))

\* the threads of SpecOrder
OrderThreads == Users \cup ConnIds

\* a guard of the account map is out to the thread
C37_HoldsAccounts(t) == holds(rwlock, "accounts", t)

\* C37: a thread that holds or awaits the lock of a connection holds a guard of
\* the account map and does not await one (the account map is locked first,
\* never the reverse); a thread that holds a guard of the selected cursor
\* awaits no lock; and every call a thread is in, and every event a folding
\* task has received, is eventually done with, the thread back outside every
\* call.
C37_NoDeadlock ==
    /\ [](\A t \in OrderThreads, c \in ConnIds :
            (holds(rwlock, c, t) \/ awaits(rwlock, c, t)) =>
                C37_HoldsAccounts(t) /\ ~awaits(rwlock, "accounts", t))
    /\ [](\A t \in OrderThreads, l \in DOMAIN rwlock :
            holds(rwlock, "selected", t) => ~awaits(rwlock, l, t))
    /\ \A t \in OrderThreads : (threads[t].pc # "idle") ~> (threads[t].pc = "idle")

\* a send() is inside the call of its connection, holding the lock of the
\* connection and a read guard of the account map, while a remove_account()
\* of the other caller waits for the write guard
C37_Witness ==
    \E t \in Users, u \in Users, c \in ConnIds :
        /\ threads[t].pc = "calling"
        /\ threads[t].op = "send"
        /\ holds(rwlock, c, t)
        /\ threads[u].pc = "await"
        /\ threads[u].op = "remove_account"
        /\ awaits(rwlock, "accounts", u)

====
